---- MODULE Spec2Model ----
(***************************************************************************)
(* A model of testvet (LeanerCloud/testvet): the analysis of a tree of Go  *)
(* files that reports functions no test routine calls and test routines    *)
(* that live in the wrong _test.go file.                                   *)
(*                                                                         *)
(* A Go string is modelled as a sequence of one-character strings, so that *)
(* prefixes, suffixes, case folding, splitting and byte-wise comparison    *)
(* are computed as the Go standard library computes them.  A Go map is a   *)
(* TLA+ function; a `range` over a map takes the iteration order as an     *)
(* explicit argument, and the actions quantify over every order.           *)
(***************************************************************************)
EXTENDS Integers, Sequences, FiniteSets, TLC

(***************************************************************************)
(* Bounds of the model.                                                    *)
(***************************************************************************)
MaxDecls == 2
MaxTests == 2
MaxCalls == 2
MaxLines == 2

(***************************************************************************)
(* The state of one run of the tool                                        *)
(***************************************************************************)
VARIABLES
    tree,                   \* input: path |-> the parsed file's function declarations
    excludePrivateFlag,         \* input: the -exclude-private flag
    coverageInput,           \* input: [isNil, pct]: nil, or name |-> coverage in tenths of a percent
    parseErrors,            \* input: the files for which parser.ParseFile returns an error
    mainInput,              \* input: <<>>, or <<flags and tool outcomes of a run of main>>
    walk,                   \* the files filepath.Walk has yet to visit, in its order
    index,                  \* [fileFunctions, fileTests] of parseProjectFiles
    pc,                     \* "parse", "untested", "misplaced", "done"
    functionsWithoutTests,  \* AnalysisResult.FunctionsWithoutTests
    misplacedTests,         \* AnalysisResult.MisplacedTests
    placements,             \* per routine, what checkTestPlacement computed
    previous,               \* the results of the runs completed before this one
    lowCoverageFuncs        \* AnalysisResult.LowCoverageFuncs

vars == <<tree, excludePrivateFlag, coverageInput, parseErrors, mainInput, walk, index, pc,
          functionsWithoutTests, misplacedTests, placements, previous, lowCoverageFuncs>>

inputs == <<tree, excludePrivateFlag, coverageInput, parseErrors, mainInput>>

(***************************************************************************)
(* Go strings                                                              *)
(***************************************************************************)
Upper == <<"A","B","C","D","E","F","G","H","I","J","K","L","M",
           "N","O","P","Q","R","S","T","U","V","W","X","Y","Z">>
Lower == <<"a","b","c","d","e","f","g","h","i","j","k","l","m",
           "n","o","p","q","r","s","t","u","v","w","x","y","z">>
Digits == <<"0","1","2","3","4","5","6","7","8","9">>

Chars == {Upper[i] : i \in 1..26} \cup {Lower[i] : i \in 1..26}
           \cup {Digits[i] : i \in 1..10} \cup {"_", ".", "/"}

\* the byte value of a character (ASCII)
Ord == [c \in Chars |->
          IF \E i \in 1..26 : Upper[i] = c
            THEN 64 + (CHOOSE i \in 1..26 : Upper[i] = c)
          ELSE IF \E i \in 1..26 : Lower[i] = c
            THEN 96 + (CHOOSE i \in 1..26 : Lower[i] = c)
          ELSE IF \E i \in 1..10 : Digits[i] = c
            THEN 47 + (CHOOSE i \in 1..10 : Digits[i] = c)
          ELSE IF c = "." THEN 46
          ELSE IF c = "/" THEN 47
          ELSE 95]

\* unicode.ToLower on one character
LowerChar == [c \in Chars |->
          IF \E i \in 1..26 : Upper[i] = c
            THEN Lower[CHOOSE i \in 1..26 : Upper[i] = c]
            ELSE c]

\* unicode.IsUpper on one character
IsUpperChar(c) == \E i \in 1..26 : Upper[i] = c

\* strings.ToLower
ToLower(s) == [i \in 1..Len(s) |-> LowerChar[s[i]]]

\* strings.EqualFold
EqualFold(s, t) == ToLower(s) = ToLower(t)

\* strings.HasPrefix
HasPrefix(s, p) == Len(p) <= Len(s) /\ SubSeq(s, 1, Len(p)) = p

\* strings.HasSuffix
HasSuffix(s, p) == Len(p) <= Len(s) /\ SubSeq(s, Len(s) - Len(p) + 1, Len(s)) = p

\* strings.TrimSuffix
TrimSuffix(s, p) == IF HasSuffix(s, p) THEN SubSeq(s, 1, Len(s) - Len(p)) ELSE s

\* strings.LastIndex(s, c) for a one-character c: a 0-based index, -1 if absent
LastIndex(s, c) ==
    IF \E i \in 1..Len(s) : s[i] = c
      THEN (CHOOSE i \in 1..Len(s) : s[i] = c /\ \A j \in (i+1)..Len(s) : s[j] # c) - 1
      ELSE -1

\* s[n:] with a 0-based n
From(s, n) == SubSeq(s, n + 1, Len(s))

\* strings.Split(s, c) for a one-character c
RECURSIVE Split(_, _)
Split(s, c) ==
    IF \E i \in 1..Len(s) : s[i] = c
      THEN LET i == CHOOSE k \in 1..Len(s) : s[k] = c /\ \A j \in 1..(k-1) : s[j] # c
           IN  <<SubSeq(s, 1, i - 1)>> \o Split(SubSeq(s, i + 1, Len(s)), c)
      ELSE <<s>>

\* the < of Go strings: byte-wise lexicographic
RECURSIVE StrLess(_, _)
StrLess(s, t) ==
    IF t = <<>> THEN FALSE
    ELSE IF s = <<>> THEN TRUE
    ELSE IF Ord[Head(s)] # Ord[Head(t)] THEN Ord[Head(s)] < Ord[Head(t)]
    ELSE StrLess(Tail(s), Tail(t))

\* filepath.Dir of a clean relative path: "." when it has no directory part
Dir(p) ==
    LET i == LastIndex(p, "/")
    IN  IF i < 0 THEN <<".">>
        ELSE IF i = 0 THEN <<"/">>
        ELSE SubSeq(p, 1, i)

\* ast.IsExported
IsExported(name) == name # <<>> /\ IsUpperChar(name[1])

GoExt == <<".", "g", "o">>
TestSuffix == <<"_", "t", "e", "s", "t", ".", "g", "o">>
Underscore == <<"_">>

(***************************************************************************)
(* Go maps and sets                                                        *)
(***************************************************************************)
\* the empty map
EmptyMap == [k \in {} |-> <<>>]

\* m[k] of a map of slices: the nil slice when k is no key
Lookup(m, k) == IF k \in DOMAIN m THEN m[k] ELSE <<>>

\* m[k] = append(m[k], v)
MapAppend(m, k, v) == [x \in DOMAIN m \cup {k} |-> IF x = k THEN Append(Lookup(m, k), v) ELSE m[x]]

\* the elements of a slice
Elems(s) == {s[i] : i \in 1..Len(s)}

\* every order in which a range over a map with key set S may visit the keys
Orders(S) == {o \in [1..Cardinality(S) -> S] : \A k \in S : \E i \in DOMAIN o : o[i] = k}

(***************************************************************************)
(* Call sites and target keys                                              *)
(*                                                                         *)
(* The callee expression of a call: [kind |-> "Ident", Name |-> n],        *)
(* [kind |-> "Selector", X |-> e, Sel |-> n] or [kind |-> "Other"].  The   *)
(* receiver position X of a selector, and a callee, may also be            *)
(* [kind |-> "Call", Fun |-> e], [kind |-> "Index", X |-> e] or            *)
(* [kind |-> "Paren", X |-> e].  A call expression is given by its callee. *)
(***************************************************************************)
extractFuncNameFromCall(fun) ==
    IF fun.kind = "Ident" THEN fun.Name
    ELSE IF fun.kind = "Selector"
      THEN IF fun.X.kind = "Ident"
             THEN fun.X.Name \o Underscore \o fun.Sel
             ELSE fun.Sel
    ELSE <<>>

\* the callback of ast.Inspect without the map seen: every key is appended
RECURSIVE extractCalledFunctionsFromUnseen(_, _)
extractCalledFunctionsFromUnseen(body, calledFuncs) ==
    IF body = <<>> THEN calledFuncs
    ELSE LET funcName == IF Head(body).kind = "Ident" THEN Head(body).Name
                         ELSE IF Head(body).kind = "Selector"
                           THEN IF Head(body).X.kind = "Ident"
                                  THEN Head(body).X.Name \o Underscore \o Head(body).Sel
                                  ELSE Head(body).Sel
                         ELSE <<>>
         IN  IF funcName # <<>>
               THEN extractCalledFunctionsFromUnseen(Tail(body), Append(calledFuncs, funcName))
               ELSE extractCalledFunctionsFromUnseen(Tail(body), calledFuncs)

\* body: the call expressions of a function body in the order ast.Inspect visits them;
\* calledFuncs, with its elements for the map seen, is what the callback has built
RECURSIVE extractCalledFunctionsFrom(_, _)
extractCalledFunctionsFrom(body, calledFuncs) ==
    IF body = <<>> THEN calledFuncs
    ELSE LET funcName == extractFuncNameFromCall(Head(body))
         IN  IF funcName # <<>> /\ funcName \notin Elems(calledFuncs)
               THEN extractCalledFunctionsFrom(Tail(body), Append(calledFuncs, funcName))
               ELSE extractCalledFunctionsFrom(Tail(body), calledFuncs)

\* the call expressions ast.Inspect meets below the expression e, outermost first
RECURSIVE callsBelow(_)
callsBelow(e) ==
    IF e.kind = "Call" THEN <<e.Fun>> \o callsBelow(e.Fun)
    ELSE IF e.kind \in {"Selector", "Index", "Paren"} THEN callsBelow(e.X)
    ELSE <<>>

\* the call expressions of a body in the order ast.Inspect visits them: each
\* statement's call, then the calls inside its callee
RECURSIVE inspectCalls(_)
inspectCalls(body) ==
    IF body = <<>> THEN <<>>
    ELSE <<Head(body)>> \o callsBelow(Head(body)) \o inspectCalls(Tail(body))

\* the Body of a declaration that has none (funcDecl.Body == nil)
nilBody == <<[kind |-> "nil"]>>

\* the nil slice for a declaration without a body
extractCalledFunctions(funcDecl) ==
    IF funcDecl.Body = nilBody THEN <<>>
    ELSE extractCalledFunctionsFrom(inspectCalls(funcDecl.Body), <<>>)

\* isTestFunction knowing the prefix Test only
isTestFunctionTestOnly(name) == HasPrefix(name, <<"T","e","s","t">>)

isTestFunction(name) ==
    \/ HasPrefix(name, <<"T","e","s","t">>)
    \/ HasPrefix(name, <<"B","e","n","c","h","m","a","r","k">>)
    \/ HasPrefix(name, <<"E","x","a","m","p","l","e">>)
    \/ HasPrefix(name, <<"F","u","z","z">>)

(***************************************************************************)
(* The declaration indexer.  A parsed function declaration is              *)
(* [Name, Recv, Line, Body]: Recv is the receiver's base type name         *)
(* ("" for a plain function).                                              *)
(***************************************************************************)
buildFuncInfo(funcDecl, funcName, relPath, line) ==
    [Name |-> funcName, File |-> relPath, Line |-> line, Receiver |-> funcDecl.Recv]

\* a function name the indexer never records (line 111), with one of the two names forgotten
isEntryPointInitOnly(funcName) == funcName = <<"i","n","i","t">>

\* funcName == "init" || funcName == "main"
isEntryPoint(funcName) == funcName = <<"i","n","i","t">> \/ funcName = <<"m","a","i","n">>

\* idx is the pair [fileFunctions, fileTests] the loop has built so far
RECURSIVE processFileDeclarations(_, _, _, _, _)
processFileDeclarations(decls, relPath, isTestFile, excludePrivate, idx) ==
    IF decls = <<>> THEN idx
    ELSE
      LET funcDecl == Head(decls)
          funcName == funcDecl.Name
          next ==
            IF isTestFile
              THEN IF isTestFunction(funcName)
                     THEN [idx EXCEPT !.fileTests = MapAppend(@, relPath,
                             [Name |-> funcName, File |-> relPath, Line |-> funcDecl.Line,
                              CalledFuncs |-> extractCalledFunctions(funcDecl)])]
                     ELSE idx
              ELSE IF isEntryPoint(funcName)
                     THEN idx
                   ELSE IF excludePrivate /\ ~IsExported(funcName)
                     THEN idx
                   ELSE [idx EXCEPT !.fileFunctions = MapAppend(@, relPath,
                             buildFuncInfo(funcDecl, funcName, relPath, funcDecl.Line))]
      IN  processFileDeclarations(Tail(decls), relPath, isTestFile, excludePrivate, next)

(***************************************************************************)
(* The tested set and the untested-function finder                         *)
(***************************************************************************)
\* the tested set when the calls of every function body of the tree are collected,
\* not only those of the indexed test routines
buildTestedFuncsMapAllBodies(fileTests) ==
    UNION {Elems(extractCalledFunctions(tree[f][i])) :
             <<f, i>> \in UNION {{<<g, j>> : j \in 1..Len(tree[g])} : g \in DOMAIN tree}}

\* the tested set when each test file's map entries are written anew per routine,
\* so that only the last routine of a file is left
buildTestedFuncsMapLastRoutine(fileTests) ==
    UNION {Elems(fileTests[tf][Len(fileTests[tf])].CalledFuncs) : tf \in DOMAIN fileTests}

buildTestedFuncsMap(fileTests) ==
    UNION {Elems(test.CalledFuncs) :
             test \in UNION {Elems(fileTests[tf]) : tf \in DOMAIN fileTests}}

\* isFunctionTested with the three comparisons made without regard to letter case
isFunctionTestedFold(f, testedFuncs) ==
    \/ \E calledFunc \in testedFuncs : EqualFold(calledFunc, f.Name)
    \/ f.Receiver # <<>>
         /\ \E calledFunc \in testedFuncs : EqualFold(calledFunc, f.Receiver \o Underscore \o f.Name)
    \/ \E calledFunc \in testedFuncs :
         HasSuffix(ToLower(calledFunc), ToLower(Underscore \o f.Name))

\* isFunctionTested without the loop over the keys ending in _Name
isFunctionTestedNoSuffix(f, testedFuncs) ==
    \/ f.Name \in testedFuncs
    \/ f.Receiver # <<>> /\ (f.Receiver \o Underscore \o f.Name) \in testedFuncs

isFunctionTested(f, testedFuncs) ==
    \/ f.Name \in testedFuncs
    \/ f.Receiver # <<>> /\ (f.Receiver \o Underscore \o f.Name) \in testedFuncs
    \/ \E calledFunc \in testedFuncs : HasSuffix(calledFunc, Underscore \o f.Name)

\* const coverageThreshold = 50.0, in tenths of a percent (go tool cover prints one decimal)
coverageThreshold == 500

\* the order sort.Slice establishes on []FuncInfo
funcLess(a, b) == IF a.File # b.File THEN StrLess(a.File, b.File) ELSE a.Line < b.Line

RECURSIVE insertFunc(_, _)
insertFunc(sorted, x) ==
    IF sorted = <<>> THEN <<x>>
    ELSE IF funcLess(x, Head(sorted)) THEN <<x>> \o sorted
    ELSE <<Head(sorted)>> \o insertFunc(Tail(sorted), x)

\* sort.Slice(result, ...) on []FuncInfo; no two declarations share file and line,
\* so the sorted slice is unique
RECURSIVE sortFuncs(_)
sortFuncs(result) ==
    IF result = <<>> THEN <<>>
    ELSE insertFunc(sortFuncs(SubSeq(result, 1, Len(result) - 1)), result[Len(result)])

\* lines 161-165 with > in place of >=
hasAdequateCoverageStrict(f, coverageMap) ==
    /\ ~coverageMap.isNil
    /\ f.Name \in DOMAIN coverageMap.pct
    /\ coverageMap.pct[f.Name] > coverageThreshold

\* the coverage map looked up by the receiver-qualified name of a method
hasAdequateCoverageByKey(f, coverageMap) ==
    LET key == IF f.Receiver # <<>> THEN f.Receiver \o Underscore \o f.Name ELSE f.Name
    IN  /\ ~coverageMap.isNil
        /\ key \in DOMAIN coverageMap.pct
        /\ coverageMap.pct[key] >= coverageThreshold

\* whether the coverage map makes the loop skip the untested function f
hasAdequateCoverage(f, coverageMap) ==
    /\ ~coverageMap.isNil
    /\ f.Name \in DOMAIN coverageMap.pct
    /\ coverageMap.pct[f.Name] >= coverageThreshold

\* the functions of one file that the loop body appends to result
RECURSIVE untestedOfFile(_, _, _)
untestedOfFile(funcs, testedFuncs, coverageMap) ==
    IF funcs = <<>> THEN <<>>
    ELSE LET f == Head(funcs)
             rest == untestedOfFile(Tail(funcs), testedFuncs, coverageMap)
         IN  IF ~isFunctionTested(f, testedFuncs)
               THEN IF hasAdequateCoverage(f, coverageMap)
                      THEN rest
                      ELSE <<f>> \o rest
               ELSE rest

\* the slice before sorting: files visited in the order `order`
RECURSIVE collectUntested(_, _, _, _)
collectUntested(order, fileFunctions, testedFuncs, coverageMap) ==
    IF order = <<>> THEN <<>>
    ELSE untestedOfFile(fileFunctions[Head(order)], testedFuncs, coverageMap)
           \o collectUntested(Tail(order), fileFunctions, testedFuncs, coverageMap)

\* findFunctionsWithoutTests without its sort.Slice
findFunctionsWithoutTestsUnsorted(fileFunctions, testedFuncs, coverageMap, order) ==
    collectUntested(order, fileFunctions, testedFuncs, coverageMap)

findFunctionsWithoutTests(fileFunctions, testedFuncs, coverageMap, order) ==
    sortFuncs(collectUntested(order, fileFunctions, testedFuncs, coverageMap))

(***************************************************************************)
(* The misplacement resolver                                               *)
(***************************************************************************)
\* the key a declaration is looked up by: Receiver_Name for a method
funcKeyOf(f) == IF f.Receiver # <<>> THEN f.Receiver \o Underscore \o f.Name ELSE f.Name

\* calledInExpectedFile of buildProperlyTestedFuncsMap, for the tests of one file
calledInFile(tests) ==
    LET called == UNION {Elems(test.CalledFuncs) : test \in Elems(tests)}
    IN  called \cup {From(c, LastIndex(c, "_") + 1) : c \in {d \in called : LastIndex(d, "_") > 0}}

buildProperlyTestedFuncsMap(fileTests, fileFunctions) ==
    UNION { LET expectedTestFile == TrimSuffix(sourceFile, GoExt) \o TestSuffix
            IN  IF expectedTestFile \notin DOMAIN fileTests THEN {}
                ELSE LET calledInExpectedFile == calledInFile(fileTests[expectedTestFile])
                     IN  UNION {{f.Name, funcKeyOf(f)} :
                                  f \in {g \in Elems(fileFunctions[sourceFile]) :
                                           \/ g.Name \in calledInExpectedFile
                                           \/ funcKeyOf(g) \in calledInExpectedFile}}
          : sourceFile \in DOMAIN fileFunctions }

matchesFunctionCall(f, calledFunc) == funcKeyOf(f) = calledFunc \/ f.Name = calledFunc

TestPrefix == <<"T","e","s","t">>

\* the part of the routine name after "Test" and one optional underscore;
\* ok is FALSE when the name has no "Test" prefix
strippedTestName(testName) ==
    IF ~HasPrefix(testName, TestPrefix) THEN [ok |-> FALSE, name |-> <<>>]
    ELSE LET name == From(testName, 4)
         IN  [ok |-> TRUE, name |-> IF HasPrefix(name, Underscore) THEN From(name, 1) ELSE name]

extractReceiverTypeFromTest(testName) ==
    LET st == strippedTestName(testName)
    IN  IF ~st.ok \/ st.name = <<>> THEN <<>>
        ELSE LET parts == Split(st.name, "_")
             IN  IF Len(parts) >= 2 THEN parts[1] ELSE <<>>

\* the non-empty parts, last part first
RECURSIVE reversedNonEmpty(_)
reversedNonEmpty(parts) ==
    IF parts = <<>> THEN <<>>
    ELSE LET last == parts[Len(parts)]
             rest == reversedNonEmpty(SubSeq(parts, 1, Len(parts) - 1))
         IN  IF last # <<>> THEN <<last>> \o rest ELSE rest

extractFunctionNamesFromTest(testName) ==
    LET st == strippedTestName(testName)
    IN  IF ~st.ok \/ st.name = <<>> THEN <<>>
        ELSE LET parts == Split(st.name, "_")
             IN  IF Len(parts) = 1 THEN <<parts[1]>> ELSE reversedNonEmpty(parts)

\* whether one called target matches the candidate (the four patterns of the loop)
calledMatches(called, funcNameLower) ==
    LET calledLower == ToLower(called)
        idx == LastIndex(calledLower, "_")
    IN  \/ calledLower = funcNameLower
        \/ HasSuffix(calledLower, Underscore \o funcNameLower)
        \/ HasPrefix(calledLower, funcNameLower)
        \/ idx > 0 /\ HasPrefix(From(calledLower, idx + 1), funcNameLower)

\* matchedName when an exact match anywhere in the calls is preferred to an
\* earlier match by suffix or prefix
firstMatchedExactFirst(calledFuncs, funcNameLower) ==
    LET exact == {i \in 1..Len(calledFuncs) : ToLower(calledFuncs[i]) = funcNameLower}
        any == {i \in 1..Len(calledFuncs) : calledMatches(calledFuncs[i], funcNameLower)}
    IN  IF exact # {} THEN calledFuncs[CHOOSE i \in exact : \A j \in exact : i <= j]
        ELSE IF any # {} THEN calledFuncs[CHOOSE i \in any : \A j \in any : i <= j]
        ELSE <<>>

\* matchedName: the first called target that matches, "" when none does
RECURSIVE firstMatched(_, _)
firstMatched(calledFuncs, funcNameLower) ==
    IF calledFuncs = <<>> THEN <<>>
    ELSE IF calledMatches(Head(calledFuncs), funcNameLower) THEN Head(calledFuncs)
    ELSE firstMatched(Tail(calledFuncs), funcNameLower)

\* the matches one function contributes (it is appended once per condition that holds)
matchesOfFunc(f, sourceFile, matchedName) ==
    (IF EqualFold(f.Name, matchedName) \/ f.Name = matchedName
       THEN <<[file |-> sourceFile, receiver |-> f.Receiver]>> ELSE <<>>)
    \o
    (IF HasSuffix(ToLower(matchedName), Underscore \o ToLower(f.Name))
       THEN <<[file |-> sourceFile, receiver |-> f.Receiver]>> ELSE <<>>)

RECURSIVE matchesOfFuncs(_, _, _)
matchesOfFuncs(funcs, sourceFile, matchedName) ==
    IF funcs = <<>> THEN <<>>
    ELSE matchesOfFunc(Head(funcs), sourceFile, matchedName)
           \o matchesOfFuncs(Tail(funcs), sourceFile, matchedName)

RECURSIVE matchesInOrder(_, _, _)
matchesInOrder(order, fileFunctions, matchedName) ==
    IF order = <<>> THEN <<>>
    ELSE matchesOfFuncs(fileFunctions[Head(order)], Head(order), matchedName)
           \o matchesInOrder(Tail(order), fileFunctions, matchedName)

\* tryMatchFunctionName without the receiver hint: always the first match
tryMatchFunctionNameFirstMatch(funcName, receiverType, calledFuncs, fileFunctions, order) ==
    LET matchedName == firstMatched(calledFuncs, ToLower(funcName))
    IN  IF matchedName = <<>> THEN <<>>
        ELSE LET matches == matchesInOrder(order, fileFunctions, matchedName)
             IN  IF Len(matches) = 0 THEN <<>> ELSE matches[1].file

tryMatchFunctionName(funcName, receiverType, calledFuncs, fileFunctions, order) ==
    LET matchedName == firstMatched(calledFuncs, ToLower(funcName))
    IN  IF matchedName = <<>> THEN <<>>
        ELSE LET matches == matchesInOrder(order, fileFunctions, matchedName)
                 hinted == {i \in 1..Len(matches) : EqualFold(matches[i].receiver, receiverType)}
             IN  IF Len(matches) = 0 THEN <<>>
                 ELSE IF receiverType # <<>> /\ hinted # {}
                   THEN matches[CHOOSE i \in hinted : \A j \in hinted : i <= j].file
                 ELSE matches[1].file

RECURSIVE tryCandidates(_, _, _, _, _)
tryCandidates(candidates, receiverType, calledFuncs, fileFunctions, order) ==
    IF candidates = <<>> THEN <<>>
    ELSE LET sourceFile == tryMatchFunctionName(Head(candidates), receiverType,
                                                calledFuncs, fileFunctions, order)
         IN  IF sourceFile # <<>> THEN sourceFile
             ELSE tryCandidates(Tail(candidates), receiverType, calledFuncs, fileFunctions, order)

findSourceByTestName(testName, calledFuncs, fileFunctions, order) ==
    LET candidates == extractFunctionNamesFromTest(testName)
    IN  IF Len(candidates) = 0 THEN <<>>
        ELSE tryCandidates(candidates, extractReceiverTypeFromTest(testName),
                           calledFuncs, fileFunctions, order)

\* whether findPrimarySourceFile skips the called target
skippedAsProperlyTested(calledFunc, properlyTestedFuncs) ==
    \/ calledFunc \in properlyTestedFuncs
    \/ LET idx == LastIndex(calledFunc, "_")
       IN  idx > 0 /\ From(calledFunc, idx + 1) \in properlyTestedFuncs

\* sourceFileCounts[sourceFile]; a file with count 0 is no key of the map
sourceFileCount(sourceFile, calledFuncs, fileFunctions, properlyTestedFuncs) ==
    Cardinality({i \in 1..Len(calledFuncs) :
        /\ ~skippedAsProperlyTested(calledFuncs[i], properlyTestedFuncs)
        /\ \E f \in Elems(fileFunctions[sourceFile]) : matchesFunctionCall(f, calledFuncs[i])})

\* the loop over sourceFileCounts, its keys visited in the order `order`:
\* st is [primarySource, maxCalls]
RECURSIVE maxCountLoop(_, _, _, _, _)
maxCountLoop(order, calledFuncs, fileFunctions, properlyTestedFuncs, st) ==
    IF order = <<>> THEN st.primarySource
    ELSE LET count == sourceFileCount(Head(order), calledFuncs, fileFunctions, properlyTestedFuncs)
         IN  maxCountLoop(Tail(order), calledFuncs, fileFunctions, properlyTestedFuncs,
                          IF count > st.maxCalls
                            THEN [primarySource |-> Head(order), maxCalls |-> count]
                            ELSE st)

\* findPrimarySourceFile taking the first file met that has a count
findPrimarySourceFileFirstCounted(calledFuncs, fileFunctions, properlyTestedFuncs, order) ==
    LET counted == {i \in 1..Len(order) :
                      sourceFileCount(order[i], calledFuncs, fileFunctions, properlyTestedFuncs) > 0}
    IN  IF counted = {} THEN <<>>
        ELSE order[CHOOSE i \in counted : \A j \in counted : i <= j]

findPrimarySourceFile(calledFuncs, fileFunctions, properlyTestedFuncs, order) ==
    maxCountLoop(order, calledFuncs, fileFunctions, properlyTestedFuncs,
                 [primarySource |-> <<>>, maxCalls |-> 0])

\* the two stages in the opposite order: call counting first, the naming
\* convention only when counting yields nothing
primarySourceOfCountingFirst(test, fileFunctions, properlyTestedFuncs, order) ==
    LET byCount == findPrimarySourceFile(test.CalledFuncs, fileFunctions,
                                         properlyTestedFuncs, order)
    IN  IF byCount = <<>>
          THEN [file |-> findSourceByTestName(test.Name, test.CalledFuncs, fileFunctions, order),
                counted |-> FALSE]
          ELSE [file |-> byCount, counted |-> TRUE]

\* lines 281-287 of checkTestPlacement: the primary source file, and whether
\* call counting was consulted for it
primarySourceOf(test, fileFunctions, properlyTestedFuncs, order) ==
    LET byName == findSourceByTestName(test.Name, test.CalledFuncs, fileFunctions, order)
    IN  IF byName = <<>>
          THEN [file |-> findPrimarySourceFile(test.CalledFuncs, fileFunctions,
                                               properlyTestedFuncs, order),
                counted |-> TRUE]
          ELSE [file |-> byName, counted |-> FALSE]

\* checkTestPlacement without the guard on empty CalledFuncs, the candidates of
\* the routine name standing in for the calls of a routine that has none
checkTestPlacementByNameAlone(test, testFile, fileFunctions, properlyTestedFuncs, order) ==
    LET called == IF Len(test.CalledFuncs) = 0
                    THEN extractFunctionNamesFromTest(test.Name)
                    ELSE test.CalledFuncs
        p == primarySourceOf([test EXCEPT !.CalledFuncs = called], fileFunctions,
                             properlyTestedFuncs, order)
        expectedTestFile == TrimSuffix(p.file, GoExt) \o TestSuffix
    IN  [primary |-> p.file, counted |-> p.counted,
         misplaced |->
           IF p.file = <<>> THEN <<>>
           ELSE IF testFile = expectedTestFile THEN <<>>
           ELSE IF Dir(testFile) # Dir(expectedTestFile) THEN <<>>
           ELSE <<[Test |-> test, ExpectedFile |-> expectedTestFile, ActualFile |-> testFile]>>]

\* checkTestPlacement without the comparison of the test file with the expected one
checkTestPlacementAnyFile(test, testFile, fileFunctions, properlyTestedFuncs, order) ==
    IF Len(test.CalledFuncs) = 0
      THEN [primary |-> <<>>, counted |-> FALSE, misplaced |-> <<>>]
    ELSE
      LET p == primarySourceOf(test, fileFunctions, properlyTestedFuncs, order)
          expectedTestFile == TrimSuffix(p.file, GoExt) \o TestSuffix
      IN  [primary |-> p.file, counted |-> p.counted,
           misplaced |->
             IF p.file = <<>> THEN <<>>
             ELSE IF Dir(testFile) # Dir(expectedTestFile) THEN <<>>
             ELSE <<[Test |-> test, ExpectedFile |-> expectedTestFile, ActualFile |-> testFile]>>]

\* checkTestPlacement without the comparison of the two directories
checkTestPlacementAnyDir(test, testFile, fileFunctions, properlyTestedFuncs, order) ==
    IF Len(test.CalledFuncs) = 0
      THEN [primary |-> <<>>, counted |-> FALSE, misplaced |-> <<>>]
    ELSE
      LET p == primarySourceOf(test, fileFunctions, properlyTestedFuncs, order)
          expectedTestFile == TrimSuffix(p.file, GoExt) \o TestSuffix
      IN  [primary |-> p.file, counted |-> p.counted,
           misplaced |->
             IF p.file = <<>> THEN <<>>
             ELSE IF testFile = expectedTestFile THEN <<>>
             ELSE <<[Test |-> test, ExpectedFile |-> expectedTestFile, ActualFile |-> testFile]>>]

\* the result: <<>> for nil, else a one-element sequence holding the record;
\* primary and counted are the function's locals, kept for observation
checkTestPlacement(test, testFile, fileFunctions, properlyTestedFuncs, order) ==
    IF Len(test.CalledFuncs) = 0
      THEN [primary |-> <<>>, counted |-> FALSE, misplaced |-> <<>>]
    ELSE
      LET p == primarySourceOf(test, fileFunctions, properlyTestedFuncs, order)
          expectedTestFile == TrimSuffix(p.file, GoExt) \o TestSuffix
      IN  [primary |-> p.file, counted |-> p.counted,
           misplaced |->
             IF p.file = <<>> THEN <<>>
             ELSE IF testFile = expectedTestFile THEN <<>>
             ELSE IF Dir(testFile) # Dir(expectedTestFile) THEN <<>>
             ELSE <<[Test |-> test, ExpectedFile |-> expectedTestFile, ActualFile |-> testFile]>>]

\* the order sort.Slice establishes on []MisplacedTest
misplacedLess(a, b) ==
    IF a.ActualFile # b.ActualFile THEN StrLess(a.ActualFile, b.ActualFile)
    ELSE a.Test.Line < b.Test.Line

RECURSIVE insertMisplaced(_, _)
insertMisplaced(sorted, x) ==
    IF sorted = <<>> THEN <<x>>
    ELSE IF misplacedLess(x, Head(sorted)) THEN <<x>> \o sorted
    ELSE <<Head(sorted)>> \o insertMisplaced(Tail(sorted), x)

\* sort.Slice(result, ...) on []MisplacedTest; no two routines share file and line
RECURSIVE sortMisplaced(_)
sortMisplaced(result) ==
    IF result = <<>> THEN <<>>
    ELSE insertMisplaced(sortMisplaced(SubSeq(result, 1, Len(result) - 1)), result[Len(result)])

\* the identifiers of the routines of the test index: <<file, position>>
testIds(fileTests) ==
    UNION {{<<testFile, i>> : i \in 1..Len(fileTests[testFile])} : testFile \in DOMAIN fileTests}

\* checkTestPlacement for every routine; srcOrders[id] is the order in which the
\* ranges over the maps visit the source files during the call for routine id
placementsOf(fileTests, fileFunctions, srcOrders) ==
    LET properlyTestedFuncs == buildProperlyTestedFuncsMap(fileTests, fileFunctions)
    IN  [id \in testIds(fileTests) |->
           checkTestPlacement(fileTests[id[1]][id[2]], id[1], fileFunctions,
                              properlyTestedFuncs, srcOrders[id])]

RECURSIVE misplacedOfFile(_, _, _)
misplacedOfFile(testFile, n, placed) ==
    IF n = 0 THEN <<>>
    ELSE misplacedOfFile(testFile, n - 1, placed) \o placed[<<testFile, n>>].misplaced

\* the slice before sorting: test files visited in the order testOrder
RECURSIVE collectMisplaced(_, _, _)
collectMisplaced(testOrder, fileTests, placed) ==
    IF testOrder = <<>> THEN <<>>
    ELSE misplacedOfFile(Head(testOrder), Len(fileTests[Head(testOrder)]), placed)
           \o collectMisplaced(Tail(testOrder), fileTests, placed)

\* findMisplacedTests without its sort.Slice
findMisplacedTestsUnsorted(fileTests, fileFunctions, testOrder, srcOrders) ==
    collectMisplaced(testOrder, fileTests, placementsOf(fileTests, fileFunctions, srcOrders))

findMisplacedTests(fileTests, fileFunctions, testOrder, srcOrders) ==
    sortMisplaced(collectMisplaced(testOrder, fileTests,
                                   placementsOf(fileTests, fileFunctions, srcOrders)))

\* line 28 of analyzeProject handing findMisplacedTests the declarations
\* that coverage does not suppress, instead of the declaration index
analyzeMisplacedUncovered(parsed, testOrder, srcOrders) ==
    LET uncovered(d) == ~hasAdequateCoverage(d, coverageInput)
        kept == [f \in DOMAIN parsed.fileFunctions |->
                   SelectSeq(parsed.fileFunctions[f], uncovered)]
    IN  findMisplacedTests(parsed.fileTests, kept, testOrder, srcOrders)

\* line 28 of analyzeProject: findMisplacedTests(parsed.fileTests, parsed.fileFunctions)
analyzeMisplaced(parsed, testOrder, srcOrders) ==
    findMisplacedTests(parsed.fileTests, parsed.fileFunctions, testOrder, srcOrders)

(***************************************************************************)
(* The state machine: one run of analyzeProject over a tree of parsed      *)
(* files.                                                                  *)
(***************************************************************************)
\* insertion of a path into a sequence sorted by path
RECURSIVE insertPath(_, _)
insertPath(sorted, x) ==
    IF sorted = <<>> THEN <<x>>
    ELSE IF StrLess(x, Head(sorted)) THEN <<x>> \o sorted
    ELSE <<Head(sorted)>> \o insertPath(Tail(sorted), x)

\* the order in which filepath.Walk visits the files: lexical
RECURSIVE walkOrder(_)
walkOrder(S) ==
    IF S = {} THEN <<>>
    ELSE LET x == CHOOSE y \in S : TRUE
         IN  insertPath(walkOrder(S \ {x}), x)

EmptyIndex == [fileFunctions |-> EmptyMap, fileTests |-> EmptyMap]

\* the state when analyzeProject is entered with one of the given inputs
InitWith(trees, flags, coverageMaps) ==
    /\ tree \in trees
    /\ excludePrivateFlag \in flags
    /\ coverageInput \in coverageMaps
    /\ parseErrors = {}
    /\ mainInput = <<>>
    /\ lowCoverageFuncs = <<>>
    /\ walk = walkOrder(DOMAIN tree)
    /\ index = EmptyIndex
    /\ pc = "parse"
    /\ functionsWithoutTests = <<>>
    /\ misplacedTests = <<>>
    /\ placements = EmptyMap
    /\ previous = <<>>

\* the callback with the declarations the parser recovered from a file it
\* reported an error for processed like those of any other file
walkCallbackKeepingPartial(relPath, idx) ==
    processFileDeclarations(tree[relPath], relPath, HasSuffix(relPath, TestSuffix),
                            excludePrivateFlag, idx)

\* lines 55-65 of the callback of filepath.Walk: the index after the .go file
\* relPath; tree[relPath] holds what parser.ParseFile returns for it, which is
\* dropped when it comes with an error
walkCallback(relPath, idx) ==
    IF relPath \in parseErrors THEN idx
    ELSE processFileDeclarations(tree[relPath], relPath, HasSuffix(relPath, TestSuffix),
                                 excludePrivateFlag, idx)

\* the callback of filepath.Walk in parseProjectFiles, for one .go file
ParseFile ==
    /\ pc = "parse"
    /\ walk # <<>>
    /\ index' = walkCallback(Head(walk), index)
    /\ walk' = Tail(walk)
    /\ UNCHANGED <<inputs, pc, functionsWithoutTests, misplacedTests, placements, previous,
                 lowCoverageFuncs>>

\* parseProjectFiles returns
ParseDone ==
    /\ pc = "parse"
    /\ walk = <<>>
    /\ pc' = "untested"
    /\ UNCHANGED <<inputs, walk, index, functionsWithoutTests, misplacedTests, placements, previous,
                 lowCoverageFuncs>>

\* analyzeProject, lines 26-27
FindUntested ==
    /\ pc = "untested"
    /\ \E order \in Orders(DOMAIN index.fileFunctions) :
         functionsWithoutTests' =
           findFunctionsWithoutTests(index.fileFunctions,
                                     buildTestedFuncsMap(index.fileTests),
                                     coverageInput, order)
    /\ pc' = "misplaced"
    /\ UNCHANGED <<inputs, walk, index, misplacedTests, placements, previous,
                 lowCoverageFuncs>>

\* analyzeProject, line 28
FindMisplaced ==
    /\ pc = "misplaced"
    /\ \E testOrder \in Orders(DOMAIN index.fileTests) :
       \E srcOrders \in [testIds(index.fileTests) -> Orders(DOMAIN index.fileFunctions)] :
         /\ placements' = placementsOf(index.fileTests, index.fileFunctions, srcOrders)
         /\ misplacedTests' = analyzeMisplaced(index, testOrder, srcOrders)
    /\ pc' = "done"
    /\ UNCHANGED <<inputs, walk, index, functionsWithoutTests, previous, lowCoverageFuncs>>

\* the tool is run again over the unchanged tree
Rerun ==
    /\ pc = "done"
    /\ previous = <<>>
    /\ previous' = <<[untested |-> functionsWithoutTests, misplaced |-> misplacedTests]>>
    /\ walk' = walkOrder(DOMAIN tree)
    /\ index' = EmptyIndex
    /\ pc' = "parse"
    /\ functionsWithoutTests' = <<>>
    /\ misplacedTests' = <<>>
    /\ placements' = EmptyMap
    /\ UNCHANGED <<inputs, lowCoverageFuncs>>

Next == ParseFile \/ ParseDone \/ FindUntested \/ FindMisplaced

NextTwice == Next \/ Rerun

(***************************************************************************)
(* The inputs of the model: names, paths and call sites                    *)
(***************************************************************************)
FuncA == <<"F","u","n","c","A">>
FuncA2 == <<"F","u","n","c","A","2">>
FuncB == <<"F","u","n","c","B">>
funcA == <<"f","u","n","c","A">>
helper == <<"h","e","l","p","e","r">>
mainName == <<"m","a","i","n">>
initName == <<"i","n","i","t">>
Load == <<"L","o","a","d">>
load == <<"l","o","a","d">>
Svc == <<"S","v","c">>
svcVar == <<"s","v","c">>

TestFuncA == <<"T","e","s","t">> \o FuncA
TestFuncB == <<"T","e","s","t">> \o FuncB
TestOther == <<"T","e","s","t","O","t","h","e","r">>
TestSvcLoad == <<"T","e","s","t">> \o Svc \o Underscore \o Load

aGo == <<"a",".","g","o">>
bGo == <<"b",".","g","o">>
aTestGo == <<"a">> \o TestSuffix
bTestGo == <<"b">> \o TestSuffix
subBGo == <<"s","u","b","/","b",".","g","o">>

\* the call f(...)
callIdent(f) == [kind |-> "Ident", Name |-> f]
\* the call x.m(...)
callMethod(x, m) == [kind |-> "Selector", X |-> [kind |-> "Ident", Name |-> x], Sel |-> m]
\* the call x.y.m(...)
callChained(x, y, m) ==
    [kind |-> "Selector", X |-> [kind |-> "Selector", X |-> [kind |-> "Ident", Name |-> x], Sel |-> y],
     Sel |-> m]
\* the call func(){...}()
callLiteral == [kind |-> "Other"]
\* the call f().m()
callOnResult(f, m) ==
    [kind |-> "Selector", X |-> [kind |-> "Call", Fun |-> [kind |-> "Ident", Name |-> f]], Sel |-> m]
\* the call x[0].m()
callOnIndex(x, m) ==
    [kind |-> "Selector", X |-> [kind |-> "Index", X |-> [kind |-> "Ident", Name |-> x]], Sel |-> m]
\* the call (x).m()
callOnParen(x, m) ==
    [kind |-> "Selector", X |-> [kind |-> "Paren", X |-> [kind |-> "Ident", Name |-> x]], Sel |-> m]
\* the call fs[0]() of a function-valued expression
callIndexed(fs) == [kind |-> "Index", X |-> [kind |-> "Ident", Name |-> fs]]

\* a parsed function declaration
decl(name, recv, line, body) == [Name |-> name, Recv |-> recv, Line |-> line, Body |-> body]

\* the sequences over S of length at most n
SeqsUpTo(S, n) == UNION {[1..k -> S] : k \in 0..n}

\* a file's declarations from their kinds [Name, Recv, Body]: the i-th one is on line i
declsOf(kinds) == [i \in 1..Len(kinds) |-> decl(kinds[i].Name, kinds[i].Recv, i, kinds[i].Body)]

kind(name, recv, body) == [Name |-> name, Recv |-> recv, Body |-> body]

\* the trees with the source files srcFiles and the test files testFiles, each
\* holding one of the given lists of declaration kinds
TreesOf(srcFiles, srcLists, testFiles, testLists) ==
    {[f \in srcFiles \cup testFiles |-> declsOf(IF f \in srcFiles THEN s[f] ELSE t[f])] :
       <<s, t>> \in [srcFiles -> srcLists] \X [testFiles -> testLists]}

NilCoverage == [isNil |-> TRUE, pct |-> EmptyMap]
coverage(m) == [isNil |-> FALSE, pct |-> m]

(***************************************************************************)
(* The run of main around analyzeProject.  mainInput[1] holds the flags    *)
(* and what the external coverage tool does when it is invoked:            *)
(* coverageRun is [failed, pct], the tool's failure and the percentages    *)
(* it had reported by then.                                                *)
(***************************************************************************)
\* the coverage collaborator handing over what it has parsed although the tool failed
getCoverageMapPartial(run) == [coverageMap |-> coverage(run.pct), failed |-> run.failed]

\* the coverage collaborator: the map of the report, no map when the tool fails
getCoverageMap(run) ==
    IF run.failed THEN [coverageMap |-> NilCoverage, failed |-> TRUE]
    ELSE [coverageMap |-> coverage(run.pct), failed |-> FALSE]

\* main up to the call of analyzeProject: the coverage map is fetched under
\* -use-coverage, and a failure is only warned about
MainCoverage ==
    /\ pc = "main"
    /\ coverageInput' = IF mainInput[1].useCoverage
                          THEN getCoverageMap(mainInput[1].coverageRun).coverageMap
                          ELSE NilCoverage
    /\ pc' = "parse"
    /\ UNCHANGED <<tree, excludePrivateFlag, parseErrors, mainInput, walk, index,
                   functionsWithoutTests, misplacedTests, placements, previous,
                   lowCoverageFuncs>>

\* the value of a decimal digit
DigitValue(c) == (CHOOSE i \in 1..10 : Digits[i] = c) - 1

\* strconv.Atoi of a string of digits
RECURSIVE Atoi(_)
Atoi(s) ==
    IF s = <<>> THEN 0
    ELSE Atoi(SubSeq(s, 1, Len(s) - 1)) * 10 + DigitValue(s[Len(s)])

\* strconv.ParseFloat of digits with at most one decimal (go tool cover prints
\* %.1f), as a number of tenths
ParseFloat(s) ==
    LET parts == Split(s, ".")
    IN  Atoi(parts[1]) * 10
          + (IF Len(parts) > 1 /\ parts[2] # <<>> THEN DigitValue(parts[2][1]) ELSE 0)

\* the order sort.Slice establishes on []LowCoverageFunc
lowLess(a, b) == IF a.File # b.File THEN StrLess(a.File, b.File) ELSE a.Line < b.Line

RECURSIVE insertLow(_, _)
insertLow(sorted, x) ==
    IF sorted = <<>> THEN <<x>>
    ELSE IF lowLess(x, Head(sorted)) THEN <<x>> \o sorted
    ELSE <<Head(sorted)>> \o insertLow(Tail(sorted), x)

\* sort.Slice(result, ...) on []LowCoverageFunc; records that share file and
\* line are identical in the outputs considered, so the sorted slice is unique
RECURSIVE sortLow(_)
sortLow(result) ==
    IF result = <<>> THEN <<>>
    ELSE insertLow(sortLow(SubSeq(result, 1, Len(result) - 1)), result[Len(result)])

\* the test against the threshold with > in place of >=
aboveThresholdStrict(percent, threshold) == percent > threshold

\* `if coverage >= threshold { continue }`
aboveThreshold(percent, threshold) == percent >= threshold

\* the loop body of parseCoverageOutput for one line of output.  A line is [kind |-> "func", filePath, line,
\* name, percent] when the regular expression matches it, [kind |-> "total"] for
\* the total line and [kind |-> "other"] for any other text; baseDir is the set
\* of file names os.Stat finds in the base directory.  filePath is a module
\* path, for which filepath.Rel against the absolute base directory fails.
lowCoverageOfLine(line, baseDir, threshold) ==
    IF line.kind # "func" THEN <<>>
    ELSE LET percent == ParseFloat(line.percent)
             parts == Split(line.filePath, "/")
             fileName == parts[Len(parts)]
             relPath == IF fileName \in baseDir THEN fileName ELSE line.filePath
         IN  IF aboveThreshold(percent, threshold) THEN <<>>
             ELSE IF line.name = <<"m","a","i","n">> \/ line.name = <<"i","n","i","t">> THEN <<>>
             ELSE <<[File |-> relPath, Line |-> Atoi(line.line), Name |-> line.name,
                     Coverage |-> percent, Threshold |-> threshold]>>

RECURSIVE lowCoverageOfLines(_, _, _)
lowCoverageOfLines(output, baseDir, threshold) ==
    IF output = <<>> THEN <<>>
    ELSE lowCoverageOfLine(Head(output), baseDir, threshold)
           \o lowCoverageOfLines(Tail(output), baseDir, threshold)

parseCoverageOutput(output, baseDir, threshold) ==
    sortLow(lowCoverageOfLines(output, baseDir, threshold))

\* analyzeCoverage: run is [failed, output], whether go test or go tool cover
\* fails and what go tool cover -func prints
analyzeCoverage(run, baseDir, threshold) ==
    IF run.failed THEN [result |-> <<>>, failed |-> TRUE]
    ELSE [result |-> parseCoverageOutput(run.output, baseDir, threshold), failed |-> FALSE]

\* the names of the files directly in the analysed directory
baseDirFiles == {f \in DOMAIN tree : \A i \in 1..Len(f) : f[i] # "/"}

\* main after analyzeProject: the low-coverage report under -threshold
MainLowCoverage ==
    /\ pc = "done"
    /\ mainInput # <<>>
    /\ lowCoverageFuncs' =
         IF mainInput[1].threshold > 0
           THEN LET r == analyzeCoverage(mainInput[1].lowRun, baseDirFiles,
                                         mainInput[1].threshold)
                IN  IF r.failed THEN lowCoverageFuncs ELSE r.result
           ELSE lowCoverageFuncs
    /\ pc' = "exit"
    /\ UNCHANGED <<inputs, walk, index, functionsWithoutTests, misplacedTests, placements,
                   previous>>

NextMain == MainCoverage \/ Next \/ MainLowCoverage

(***************************************************************************)
(* Spec: the declaration index and the untested-function finder.           *)
(* a.go holds up to MaxDecls functions, b.go nothing or two functions, and *)
(* a_test.go at most one routine with up to MaxCalls calls.                *)
(***************************************************************************)
SrcKindsA ==
    { kind(FuncA, <<>>, <<>>),
      kind(helper, <<>>, <<callIdent(FuncA)>>),
      kind(mainName, <<>>, <<callIdent(FuncA)>>),
      kind(initName, <<>>, <<>>),
      kind(Load, Svc, <<>>) }

TestCalls == { callIdent(FuncA), callIdent(helper), callMethod(svcVar, Load) }

TestKinds == { kind(TestOther, <<>>, body) : body \in SeqsUpTo(TestCalls, MaxCalls) }

ListsB == { <<>>, <<kind(FuncB, <<>>, <<>>), kind(Load, <<>>, <<>>)>> }

Trees ==
    {a @@ b : <<a, b>> \in
       TreesOf({aGo}, SeqsUpTo(SrcKindsA, MaxDecls), {aTestGo}, SeqsUpTo(TestKinds, 1))
         \X TreesOf({bGo}, ListsB, {}, {})}

\* no coverage data, or a report in tenths of a percent: 49.9%, 50.0%, 100.0%
CoverageMaps ==
    { NilCoverage,
      coverage(EmptyMap),
      coverage(FuncA :> 499),
      coverage(FuncA :> 500),
      coverage(FuncA :> 1000 @@ Load :> 500) }

Init == InitWith(Trees, BOOLEAN, CoverageMaps)

Spec == Init /\ [][Next]_vars

(***************************************************************************)
(* Properties of the index and of the untested-function output             *)
(***************************************************************************)
isTestPath(f) == HasSuffix(f, TestSuffix)

\* the positions of the declarations of the tree: <<file, position>>
declIds == UNION {{<<f, i>> : i \in 1..Len(tree[f])} : f \in DOMAIN tree}

\* the target keys of the call sites written in the bodies of the test routines
keysCalledByTests ==
    UNION {Elems(extractCalledFunctions(tree[id[1]][id[2]])) :
             id \in {x \in declIds : isTestPath(x[1]) /\ isTestFunction(tree[x[1]][x[2]].Name)}}

\* some test routine calls name, plainly or as a method of any receiver spelling
calledByATest(name) ==
    \E key \in keysCalledByTests : key = name \/ HasSuffix(key, Underscore \o name)

\* the declaration at id is one the indexer records under the flag of this run
isIndexable(id) ==
    /\ ~isTestPath(id[1])
    /\ tree[id[1]][id[2]].Name \notin {mainName, initName}
    /\ excludePrivateFlag => IsUpperChar(tree[id[1]][id[2]].Name[1])

\* the FuncInfo of the declaration at id
funcInfoAt(id) ==
    [Name |-> tree[id[1]][id[2]].Name, File |-> id[1],
     Line |-> tree[id[1]][id[2]].Line, Receiver |-> tree[id[1]][id[2]].Recv]

\* C1: a function named main or init is never a Declaration of the index and
\* never appears in the untested output, whatever the tests, the coverage map
\* and the visibility filter are.
C1_EntryPointsNeverReported ==
    /\ \A f \in DOMAIN index.fileFunctions :
         \A d \in Elems(index.fileFunctions[f]) : d.Name \notin {mainName, initName}
    /\ \A d \in Elems(functionsWithoutTests) : d.Name \notin {mainName, initName}

\* a finished run without the visibility filter over a file that declares main
\* and init, with other functions reported
C1_Witness ==
    /\ pc = "done"
    /\ ~excludePrivateFlag
    /\ \E f \in DOMAIN tree :
         /\ ~isTestPath(f)
         /\ {mainName, initName} \subseteq {tree[f][i].Name : i \in 1..Len(tree[f])}
    /\ functionsWithoutTests # <<>>

\* C6: without coverage data, an indexed declaration that no test routine
\* calls in its own body is reported untested, whichever non-test functions
\* call it.
C6_IndirectCallsDoNotCount ==
    (pc = "done" /\ coverageInput.isNil) =>
      \A id \in declIds :
        (isIndexable(id) /\ ~calledByATest(tree[id[1]][id[2]].Name))
          => funcInfoAt(id) \in Elems(functionsWithoutTests)

\* FuncA is called by helper only, helper by no test, and FuncA is reported
C6_Witness ==
    /\ pc = "done"
    /\ coverageInput.isNil
    /\ ~calledByATest(FuncA)
    /\ ~calledByATest(helper)
    /\ \E id \in declIds :
         /\ ~isTestPath(id[1])
         /\ tree[id[1]][id[2]].Name = helper
         /\ callIdent(FuncA) \in Elems(tree[id[1]][id[2]].Body)
    /\ \E d \in Elems(functionsWithoutTests) : d.Name = FuncA

\* C8: the untested output is sorted by file path and, within a file, by line.
C8_UntestedSorted ==
    \A i, j \in 1..Len(functionsWithoutTests) :
      i < j =>
        \/ StrLess(functionsWithoutTests[i].File, functionsWithoutTests[j].File)
        \/ /\ functionsWithoutTests[i].File = functionsWithoutTests[j].File
           /\ functionsWithoutTests[i].Line <= functionsWithoutTests[j].Line

\* an output with two functions of one file and a function of another file
C8_Witness ==
    /\ pc = "done"
    /\ \E i, j, k \in 1..Len(functionsWithoutTests) :
         /\ i < j
         /\ functionsWithoutTests[i].File = functionsWithoutTests[j].File
         /\ functionsWithoutTests[k].File # functionsWithoutTests[i].File

\* C5: a declaration no test calls is absent from the untested output when the
\* coverage map reports its name at 50.0% or more, and present when the map
\* reports it below 50.0%, has no entry for it, or is nil.
C5_CoverageSuppressionAtFifty ==
    pc = "done" =>
      \A id \in declIds :
        (isIndexable(id) /\ ~calledByATest(tree[id[1]][id[2]].Name)) =>
          LET name == tree[id[1]][id[2]].Name
              reported == /\ ~coverageInput.isNil
                          /\ name \in DOMAIN coverageInput.pct
          IN  IF reported /\ coverageInput.pct[name] >= 500
                THEN funcInfoAt(id) \notin Elems(functionsWithoutTests)
                ELSE funcInfoAt(id) \in Elems(functionsWithoutTests)

\* FuncA is declared, called by no test, reported at exactly 50.0%, and absent
C5_Witness ==
    /\ pc = "done"
    /\ ~coverageInput.isNil
    /\ FuncA \in DOMAIN coverageInput.pct
    /\ coverageInput.pct[FuncA] = 500
    /\ ~calledByATest(FuncA)
    /\ \E id \in declIds : isIndexable(id) /\ tree[id[1]][id[2]].Name = FuncA
    /\ \A d \in Elems(functionsWithoutTests) : d.Name # FuncA

(***************************************************************************)
(* SpecTests: several routines in two test files.  a.go declares FuncA,    *)
(* b.go declares FuncB or nothing; a_test.go holds up to MaxTests routines *)
(* and b_test.go at most one, each with no call, a call that yields no     *)
(* key, or one call.                                                       *)
(***************************************************************************)
RoutineKinds ==
    { kind(name, <<>>, body) :
        name \in {TestFuncA, TestFuncB},
        body \in {<<>>, <<callLiteral>>, <<callIdent(FuncA)>>, <<callIdent(FuncB)>>} }

TreesTests ==
    {a @@ b : <<a, b>> \in
       TreesOf({aGo}, {<<kind(FuncA, <<>>, <<>>)>>}, {aTestGo}, SeqsUpTo(RoutineKinds, MaxTests))
         \X TreesOf({bGo}, {<<>>, <<kind(FuncB, <<>>, <<>>)>>}, {bTestGo}, SeqsUpTo(RoutineKinds, 1))}

InitTests == InitWith(TreesTests, {FALSE}, {NilCoverage})

SpecTests == InitTests /\ [][Next]_vars

\* the test routines of the tree: <<file, position>>
routineIds == {id \in declIds : isTestPath(id[1]) /\ isTestFunction(tree[id[1]][id[2]].Name)}

\* the misplacement records of the routine at id
recordsOf(id) ==
    {i \in 1..Len(misplacedTests) :
       /\ misplacedTests[i].ActualFile = id[1]
       /\ misplacedTests[i].Test.Name = tree[id[1]][id[2]].Name
       /\ misplacedTests[i].Test.Line = tree[id[1]][id[2]].Line}

\* C2: a routine whose body yields no target key is never reported misplaced.
C2_NoCallsNeverMisplaced ==
    \A id \in routineIds :
      extractCalledFunctions(tree[id[1]][id[2]]) = <<>> => recordsOf(id) = {}

\* TestFuncB sits in a_test.go with no call while b.go declares FuncB, and the
\* run reports another routine
C2_Witness ==
    /\ pc = "done"
    /\ misplacedTests # <<>>
    /\ \E f \in DOMAIN index.fileFunctions :
         \E d \in Elems(index.fileFunctions[f]) : d.Name = FuncB /\ f = bGo
    /\ \E id \in routineIds :
         /\ id[1] = aTestGo
         /\ tree[id[1]][id[2]].Name = TestFuncB
         /\ tree[id[1]][id[2]].Body = <<>>

\* C9: the misplaced output is sorted by actual test file and, within a file,
\* by routine line.
C9_MisplacedSorted ==
    \A i, j \in 1..Len(misplacedTests) :
      i < j =>
        \/ StrLess(misplacedTests[i].ActualFile, misplacedTests[j].ActualFile)
        \/ /\ misplacedTests[i].ActualFile = misplacedTests[j].ActualFile
           /\ misplacedTests[i].Test.Line <= misplacedTests[j].Test.Line

\* an output with two routines of one test file and a routine of another
C9_Witness ==
    /\ pc = "done"
    /\ \E i, j, k \in 1..Len(misplacedTests) :
         /\ i < j
         /\ misplacedTests[i].ActualFile = misplacedTests[j].ActualFile
         /\ misplacedTests[k].ActualFile # misplacedTests[i].ActualFile

(***************************************************************************)
(* SpecNaming: the two stages of checkTestPlacement for one routine.       *)
(* a.go holds up to MaxDecls functions among FuncA, FuncA2 and funcA; a    *)
(* second source file, b.go or sub/b.go, holds one of a few lists; one     *)
(* routine, TestFuncA or TestOther, with up to MaxCalls calls sits in      *)
(* a_test.go or b_test.go.                                                 *)
(***************************************************************************)
NamingKindsA == { kind(name, <<>>, <<>>) : name \in {FuncA, FuncA2, funcA} }

NamingListsB ==
    { <<>>,
      <<kind(FuncB, <<>>, <<>>)>>,
      <<kind(FuncA, <<>>, <<>>)>>,
      <<kind(FuncA2, <<>>, <<>>), kind(FuncB, <<>>, <<>>)>> }

NamingRoutines ==
    { <<kind(name, <<>>, body)>> :
        name \in {TestFuncA, TestOther},
        body \in SeqsUpTo({callIdent(FuncA), callIdent(FuncA2), callIdent(FuncB)}, MaxCalls) }

TreesNaming ==
    {x[1] @@ x[2] @@ x[3] : x \in
       TreesOf({aGo}, SeqsUpTo(NamingKindsA, MaxDecls), {}, {})
         \X (TreesOf({bGo}, NamingListsB, {}, {})
               \cup TreesOf({subBGo}, {<<kind(FuncA, <<>>, <<>>)>>}, {}, {}))
         \X (TreesOf({}, {}, {aTestGo}, NamingRoutines)
               \cup TreesOf({}, {}, {bTestGo}, NamingRoutines))}

InitNaming == InitWith(TreesNaming, BOOLEAN, {NilCoverage})

SpecNaming == InitNaming /\ [][Next]_vars

\* F of a routine named Test<F>, <<>> when the name has no such form
namedAfter(t) == IF HasPrefix(t.Name, TestPrefix) THEN From(t.Name, 4) ELSE <<>>

\* X.go for the test file X_test.go
sourceOf(testFile) == TrimSuffix(testFile, TestSuffix) \o GoExt

\* the files of the index with a declaration named F
declaringFiles(F) ==
    {f \in DOMAIN index.fileFunctions : \E d \in Elems(index.fileFunctions[f]) : d.Name = F}

\* the files of the index with a declaration named F up to letter case
declaringFilesFold(F) ==
    {f \in DOMAIN index.fileFunctions :
       \E d \in Elems(index.fileFunctions[f]) : EqualFold(d.Name, F)}

\* the misplacement records of the routine t of testFile
recordsOfTest(testFile, t) ==
    {i \in 1..Len(misplacedTests) :
       misplacedTests[i].ActualFile = testFile /\ misplacedTests[i].Test = t}

\* exactly one record for t, and it names the test file of Y
reportedOnceFor(testFile, t, Y) ==
    /\ Cardinality(recordsOfTest(testFile, t)) = 1
    /\ \A i \in recordsOfTest(testFile, t) :
         misplacedTests[i].ExpectedFile = TrimSuffix(Y, GoExt) \o TestSuffix

\* the claim C3 as the specification words it: the routine Test<F> of
\* X_test.go calls F; F declared only in Y.go of the same directory gives one
\* record naming Y_test.go, F declared in X.go gives none
C3_AsStated ==
    pc = "done" =>
      \A id \in testIds(index.fileTests) :
        LET t == index.fileTests[id[1]][id[2]]
            F == namedAfter(t)
            X == sourceOf(id[1])
        IN  (F # <<>> /\ F \in Elems(t.CalledFuncs)) =>
              /\ \A Y \in declaringFiles(F) :
                   (declaringFiles(F) = {Y} /\ Y # X /\ Dir(Y) = Dir(id[1]))
                     => reportedOnceFor(id[1], t, Y)
              /\ X \in declaringFiles(F) => recordsOfTest(id[1], t) = {}

\* C3: for a routine Test<F> of X_test.go, F without underscore, whose first
\* called target matching F under the naming patterns is F itself: when every
\* indexed declaration named F up to letter case is in Y.go, Y different from
\* X and in the same directory, exactly one record is reported for it, with
\* expected file Y_test.go; when every such declaration is in X.go, none is.
C3_NamedRoutinePlacement ==
    pc = "done" =>
      \A id \in testIds(index.fileTests) :
        LET t == index.fileTests[id[1]][id[2]]
            F == namedAfter(t)
            X == sourceOf(id[1])
            D == declaringFilesFold(F)
        IN  (/\ F # <<>>
             /\ Underscore[1] \notin Elems(F)
             /\ firstMatched(t.CalledFuncs, ToLower(F)) = F) =>
              /\ \A Y \in D :
                   (D = {Y} /\ Y # X /\ Dir(Y) = Dir(id[1])) => reportedOnceFor(id[1], t, Y)
              /\ D = {X} => recordsOfTest(id[1], t) = {}

\* TestFuncA of a_test.go calls FuncA and then FuncA2, a.go declares FuncA2,
\* FuncA is declared in b.go only, and the routine is reported
C3_Witness ==
    /\ pc = "done"
    /\ declaringFilesFold(FuncA) = {bGo}
    /\ aGo \in declaringFiles(FuncA2)
    /\ \E id \in testIds(index.fileTests) :
         LET t == index.fileTests[id[1]][id[2]]
         IN  /\ id[1] = aTestGo
             /\ t.Name = TestFuncA
             /\ t.CalledFuncs = <<FuncA, FuncA2>>
             /\ reportedOnceFor(aTestGo, t, bGo)

\* the files the naming convention can yield for t, over the iteration orders
filesByName(t) ==
    {findSourceByTestName(t.Name, t.CalledFuncs, index.fileFunctions, order) :
       order \in Orders(DOMAIN index.fileFunctions)} \ {<<>>}

\* the files call counting can yield for t, over the iteration orders
filesByCount(t) ==
    {findPrimarySourceFile(t.CalledFuncs, index.fileFunctions,
                           buildProperlyTestedFuncsMap(index.fileTests, index.fileFunctions),
                           order) :
       order \in Orders(DOMAIN index.fileFunctions)}

\* C4: when the naming convention yields a file for a routine with calls, that
\* file is the primary file and call counting is not consulted; call counting
\* is consulted only when the naming convention yields nothing.
C4_NamingBeforeCounting ==
    pc = "done" =>
      \A id \in testIds(index.fileTests) :
        LET t == index.fileTests[id[1]][id[2]]
        IN  Len(t.CalledFuncs) > 0 =>
              /\ filesByName(t) # {} =>
                   placements[id].primary \in filesByName(t) /\ ~placements[id].counted
              /\ placements[id].counted => filesByName(t) = {}

\* the naming convention yields a.go for a routine of a_test.go while call
\* counting yields b.go in every order, and a.go is the primary file
C4_Witness ==
    /\ pc = "done"
    /\ \E id \in testIds(index.fileTests) :
         LET t == index.fileTests[id[1]][id[2]]
         IN  /\ id[1] = aTestGo
             /\ filesByName(t) = {aGo}
             /\ filesByCount(t) = {bGo}
             /\ placements[id].primary = aGo
             /\ misplacedTests = <<>>

(***************************************************************************)
(* SpecTwice: the analysis run twice over one tree.  a.go holds up to      *)
(* MaxDecls functions among FuncA and FuncB, b.go one function or none;    *)
(* one routine with up to MaxCalls calls sits in a_test.go or in           *)
(* c_test.go, a test file with no source file of its name.                 *)
(***************************************************************************)
cTestGo == <<"c">> \o TestSuffix

TwiceKinds == { kind(name, <<>>, <<>>) : name \in {FuncA, FuncB} }

TwiceRoutines ==
    { <<kind(name, <<>>, body)>> :
        name \in {TestFuncA, TestOther},
        body \in SeqsUpTo({callIdent(FuncA), callIdent(FuncB)}, MaxCalls) }

TreesTwice ==
    {x[1] @@ x[2] @@ x[3] : x \in
       TreesOf({aGo}, SeqsUpTo(TwiceKinds, MaxDecls), {}, {})
         \X TreesOf({bGo}, {<<>>} \cup {<<k>> : k \in TwiceKinds}, {}, {})
         \X (TreesOf({}, {}, {aTestGo}, TwiceRoutines)
               \cup TreesOf({}, {}, {cTestGo}, TwiceRoutines))}

InitTwice == InitWith(TreesTwice, {FALSE}, {NilCoverage})

SpecTwice == InitTwice /\ [][NextTwice]_vars

\* C7: a second run over the unchanged tree yields the untested and the
\* misplaced output of the first run, record for record, whatever the orders
\* in which the maps are iterated.
C7_RunsAgree ==
    (pc = "done" /\ previous # <<>>) =>
      previous[1] = [untested |-> functionsWithoutTests, misplaced |-> misplacedTests]

(***************************************************************************)
(* SpecCounting: call counting for a routine whose name matches none of    *)
(* its calls.  a.go holds up to MaxDecls of the functions FuncA and FuncA2,*)
(* b.go FuncB or nothing; the routine TestOther of a_test.go, b_test.go or *)
(* c_test.go calls one, two or three distinct functions.                   *)
(***************************************************************************)
\* the sequences of S without repetition, of length lo to hi
DistinctSeqs(S, lo, hi) ==
    {q \in UNION {[1..k -> S] : k \in lo..hi} : \A i, j \in 1..Len(q) : i # j => q[i] # q[j]}

CountingBodies == DistinctSeqs({callIdent(FuncA), callIdent(FuncA2), callIdent(FuncB)}, 1, 3)

CountingRoutines == { <<kind(TestOther, <<>>, body)>> : body \in CountingBodies }

TreesCounting ==
    {x[1] @@ x[2] @@ x[3] : x \in
       TreesOf({aGo}, DistinctSeqs({kind(FuncA, <<>>, <<>>), kind(FuncA2, <<>>, <<>>)}, 0, MaxDecls),
               {}, {})
         \X TreesOf({bGo}, {<<>>, <<kind(FuncB, <<>>, <<>>)>>}, {}, {})
         \X (TreesOf({}, {}, {aTestGo}, CountingRoutines)
               \cup TreesOf({}, {}, {bTestGo}, CountingRoutines)
               \cup TreesOf({}, {}, {cTestGo}, CountingRoutines))}

InitCounting == InitWith(TreesCounting, {FALSE}, {NilCoverage})

SpecCounting == InitCounting /\ [][Next]_vars

\* the declarations of sourceFile that the distinct called targets of t resolve to
resolvedIn(sourceFile, t) ==
    {d \in Elems(index.fileFunctions[sourceFile]) :
       \E called \in Elems(t.CalledFuncs) : matchesFunctionCall(d, called)}

\* no candidate of the routine name matches a called target
nameMatchesNoCall(t) ==
    \A candidate \in Elems(extractFunctionNamesFromTest(t.Name)) :
      firstMatched(t.CalledFuncs, ToLower(candidate)) = <<>>

\* C10: a routine of X_test.go whose name matches none of its called targets,
\* and whose distinct called targets resolve to strictly more declarations of
\* X.go than of any other file, is never reported misplaced.
C10_MajorityInOwnFileNotReported ==
    pc = "done" =>
      \A id \in testIds(index.fileTests) :
        LET t == index.fileTests[id[1]][id[2]]
            X == sourceOf(id[1])
        IN  (/\ nameMatchesNoCall(t)
             /\ X \in DOMAIN index.fileFunctions
             /\ \A f \in DOMAIN index.fileFunctions \ {X} :
                  Cardinality(resolvedIn(X, t)) > Cardinality(resolvedIn(f, t)))
              => recordsOfTest(id[1], t) = {}

(***************************************************************************)
(* Properties of the tested set                                            *)
(***************************************************************************)
\* the test index without the file testFile
withoutFile(fileTests, testFile) == [f \in DOMAIN fileTests \ {testFile} |-> fileTests[f]]

\* the test index without the routine at id; a file left with no routine is no key
withoutRoutine(fileTests, id) ==
    IF Len(fileTests[id[1]]) = 1 THEN withoutFile(fileTests, id[1])
    ELSE [fileTests EXCEPT ![id[1]] =
            SubSeq(@, 1, id[2] - 1) \o SubSeq(@, id[2] + 1, Len(@))]

\* C11: the tested set is the union of the called targets of the test routines
\* of all test files; the index with a routine or a test file less has a
\* tested set included in it, equal to it when the routine has no called target.
C11_TestedSetUnionMonotonic ==
    LET fileTests == index.fileTests
        testedFuncs == buildTestedFuncsMap(fileTests)
    IN  /\ pc # "parse" => testedFuncs = keysCalledByTests
        /\ \A id \in testIds(fileTests) :
             /\ buildTestedFuncsMap(withoutRoutine(fileTests, id)) \subseteq testedFuncs
             /\ fileTests[id[1]][id[2]].CalledFuncs = <<>>
                  => buildTestedFuncsMap(withoutRoutine(fileTests, id)) = testedFuncs
        /\ \A testFile \in DOMAIN fileTests :
             buildTestedFuncsMap(withoutFile(fileTests, testFile)) \subseteq testedFuncs

\* a_test.go holds a routine calling FuncA followed by one calling FuncB,
\* b_test.go a routine without call, and the tested set is {FuncA, FuncB}
C11_Witness ==
    /\ pc = "done"
    /\ aTestGo \in DOMAIN index.fileTests
    /\ bTestGo \in DOMAIN index.fileTests
    /\ Len(index.fileTests[aTestGo]) = 2
    /\ index.fileTests[aTestGo][1].CalledFuncs = <<FuncA>>
    /\ index.fileTests[aTestGo][2].CalledFuncs = <<FuncB>>
    /\ index.fileTests[bTestGo][1].CalledFuncs = <<>>
    /\ buildTestedFuncsMap(index.fileTests) = {FuncA, FuncB}

(***************************************************************************)
(* SpecTested: the three ways a declaration is found in the tested set.    *)
(* a.go holds up to MaxDecls declarations among FuncA, funcA and the       *)
(* method Load of Svc; the routine of a_test.go makes up to MaxCalls calls *)
(* among FuncA(), funcA(), svc.Load() and svc.load().                      *)
(***************************************************************************)
TestedKinds == { kind(FuncA, <<>>, <<>>), kind(funcA, <<>>, <<>>), kind(Load, Svc, <<>>) }

TestedCalls ==
    { callIdent(FuncA), callIdent(funcA), callMethod(svcVar, Load), callMethod(svcVar, load) }

TreesTested ==
    TreesOf({aGo}, SeqsUpTo(TestedKinds, MaxDecls),
            {aTestGo}, {<<kind(TestOther, <<>>, body)>> : body \in SeqsUpTo(TestedCalls, MaxCalls)})

InitTested == InitWith(TreesTested, BOOLEAN, {NilCoverage})

SpecTested == InitTested /\ [][Next]_vars

\* the declarations of the index
indexedFuncs == UNION {Elems(index.fileFunctions[f]) : f \in DOMAIN index.fileFunctions}

\* C12: with no coverage map, an indexed declaration is in the untested output
\* exactly when the tested set holds none of its plain name, the key
\* Receiver_Name of its own receiver type, and a key ending in "_" and its name,
\* the strings compared with regard to letter case.
C12_UntestedIffNoKeyMatches ==
    (pc = "done" /\ coverageInput.isNil) =>
      \A f \in indexedFuncs :
        f \in Elems(functionsWithoutTests) <=>
          /\ f.Name \notin keysCalledByTests
          /\ f.Receiver = <<>> \/ (f.Receiver \o Underscore \o f.Name) \notin keysCalledByTests
          /\ \A key \in keysCalledByTests :
               \/ Len(key) < Len(f.Name) + 1
               \/ SubSeq(key, Len(key) - Len(f.Name), Len(key)) # Underscore \o f.Name

\* the routine calls funcA() and svc.Load(): FuncA is reported, the method
\* Load of Svc is not
C12_Witness ==
    /\ pc = "done"
    /\ coverageInput.isNil
    /\ keysCalledByTests = {funcA, svcVar \o Underscore \o Load}
    /\ \E f \in Elems(functionsWithoutTests) : f.Name = FuncA
    /\ \E f \in indexedFuncs :
         f.Name = Load /\ f.Receiver = Svc /\ f \notin Elems(functionsWithoutTests)

(***************************************************************************)
(* SpecCallees: the callee shapes of the call sites of one routine.  a.go  *)
(* holds up to MaxDecls declarations among FuncA and the method Load of    *)
(* Svc; the routine of a_test.go makes up to MaxCalls calls among          *)
(* FuncA(), svc.Load(), svc.svc.Load(), func(){}(), svc[0](),              *)
(* FuncA().Load(), svc[0].Load() and (svc).Load().                         *)
(***************************************************************************)
CalleeShapes ==
    { callIdent(FuncA), callMethod(svcVar, Load), callChained(svcVar, svcVar, Load),
      callLiteral, callIndexed(svcVar),
      callOnResult(FuncA, Load), callOnIndex(svcVar, Load), callOnParen(svcVar, Load) }

TreesCallees ==
    TreesOf({aGo}, SeqsUpTo({kind(FuncA, <<>>, <<>>), kind(Load, Svc, <<>>)}, MaxDecls),
            {aTestGo}, {<<kind(TestOther, <<>>, body)>> :
                           body \in SeqsUpTo(CalleeShapes, MaxCalls) \cup {nilBody}})

InitCallees == InitWith(TreesCallees, {FALSE}, {NilCoverage})

SpecCallees == InitCallees /\ [][Next]_vars

\* the target key the specification gives a callee: the identifier, X_M for a
\* selector on a bare identifier, M for a selector on a selector, none otherwise
keyBySpecification(fun) ==
    IF fun.kind = "Ident" THEN fun.Name
    ELSE IF fun.kind = "Selector" /\ fun.X.kind = "Ident"
      THEN fun.X.Name \o Underscore \o fun.Sel
    ELSE IF fun.kind = "Selector" /\ fun.X.kind = "Selector" THEN fun.Sel
    ELSE <<>>

\* C13: the called targets of a routine are the keys of its call sites by
\* callee syntax: the identifier of a bare identifier, X_M of a selector on a
\* bare identifier, M of a selector on a selector, and no key for any other
\* callee, a selector on a call result, index or parenthesised expression
\* included.
C13_KeyByCalleeSyntax ==
    (pc # "parse" /\ aTestGo \in DOMAIN index.fileTests) =>
      Elems(index.fileTests[aTestGo][1].CalledFuncs) =
        {keyBySpecification(fun) : fun \in Elems(inspectCalls(tree[aTestGo][1].Body))} \ {<<>>}

\* the target keys of the call sites of the routine of a_test.go, in the
\* order ast.Inspect visits the call sites
keysOfCallSites ==
    LET body  == tree[aTestGo][1].Body
        sites == IF body = nilBody THEN <<>> ELSE inspectCalls(body)
    IN  [i \in 1..Len(sites) |-> extractFuncNameFromCall(sites[i])]

\* the 1-based place of the first call site with the target key k
firstSite(k) == CHOOSE i \in 1..Len(keysOfCallSites) :
                  keysOfCallSites[i] = k /\ \A j \in 1..(i-1) : keysOfCallSites[j] # k

\* C19: the called targets of a routine hold every non-empty target key of a
\* call site of its body exactly once, in the order of first occurrence; the
\* list has no duplicate and no empty key, and it is empty for a routine with
\* no body or with no call site that yields a key.
C19_CalledTargetsOnceInOrder ==
    (pc # "parse" /\ aTestGo \in DOMAIN index.fileTests) =>
      LET called == index.fileTests[aTestGo][1].CalledFuncs
      IN  /\ Elems(called) = Elems(keysOfCallSites) \ {<<>>}
          /\ \A i, j \in 1..Len(called) : i < j =>
                /\ called[i] # called[j]
                /\ firstSite(called[i]) < firstSite(called[j])
          /\ (\A i \in 1..Len(keysOfCallSites) : keysOfCallSites[i] = <<>>) => called = <<>>

\* the routine calls FuncA() and then FuncA().Load(): three call sites, the
\* key FuncA met twice, two called targets
C19_Witness ==
    /\ pc = "done"
    /\ tree[aTestGo][1].Body = <<callIdent(FuncA), callOnResult(FuncA, Load)>>
    /\ keysOfCallSites = <<FuncA, Load, FuncA>>
    /\ index.fileTests[aTestGo][1].CalledFuncs = <<FuncA, Load>>

(***************************************************************************)
(* Properties of the misplacement records                                  *)
(***************************************************************************)
\* C14: every misplacement record has an expected file that differs from the
\* actual file, lies in the same directory, and is the path of a file of the
\* declaration index with .go replaced by _test.go; a routine whose primary
\* file lies in another directory has no record.
C14_RecordsWellFormed ==
    /\ \A i \in 1..Len(misplacedTests) :
         LET r == misplacedTests[i]
         IN  /\ r.ExpectedFile # r.ActualFile
             /\ Dir(r.ExpectedFile) = Dir(r.ActualFile)
             /\ \E f \in DOMAIN index.fileFunctions :
                  /\ HasSuffix(f, GoExt)
                  /\ r.ExpectedFile = SubSeq(f, 1, Len(f) - Len(GoExt)) \o TestSuffix
    /\ pc = "done" =>
         \A id \in testIds(index.fileTests) :
           (placements[id].primary # <<>> /\ Dir(placements[id].primary) # Dir(id[1]))
             => recordsOfTest(id[1], index.fileTests[id[1]][id[2]]) = {}

\* the routine of a_test.go has its primary file in the directory sub, and
\* the run reports nothing
C14_Witness ==
    /\ pc = "done"
    /\ \E id \in testIds(index.fileTests) :
         /\ id[1] = aTestGo
         /\ placements[id].primary = subBGo
    /\ misplacedTests = <<>>

(***************************************************************************)
(* SpecMain: main with its flags and the external coverage tool.  a.go     *)
(* holds up to MaxDecls functions among FuncA, FuncB and main; the routine *)
(* of a_test.go calls FuncB or nothing.                                    *)
(***************************************************************************)
TreesMain ==
    TreesOf({aGo},
            SeqsUpTo({kind(FuncA, <<>>, <<>>), kind(FuncB, <<>>, <<>>), kind(mainName, <<>>, <<>>)},
                     MaxDecls),
            {aTestGo},
            {<<kind(TestOther, <<>>, body)>> : body \in {<<>>, <<callIdent(FuncB)>>}})

\* the tool fails before or after reporting FuncA, or succeeds with a report
CoverageRuns ==
    { [failed |-> TRUE, pct |-> EmptyMap],
      [failed |-> TRUE, pct |-> FuncA :> 1000],
      [failed |-> FALSE, pct |-> FuncA :> 1000],
      [failed |-> FALSE, pct |-> FuncA :> 499 @@ FuncB :> 0] }

\* go test failing when run for the low-coverage report
FailedLowRun == [failed |-> TRUE, output |-> <<>>]

MainInputs ==
    [useCoverage : BOOLEAN, coverageRun : CoverageRuns, threshold : {0}, lowRun : {FailedLowRun}]

InitMain ==
    /\ tree \in TreesMain
    /\ excludePrivateFlag = FALSE
    /\ coverageInput = NilCoverage
    /\ parseErrors = {}
    /\ mainInput \in {<<m>> : m \in MainInputs}
    /\ lowCoverageFuncs = <<>>
    /\ walk = walkOrder(DOMAIN tree)
    /\ index = EmptyIndex
    /\ pc = "main"
    /\ functionsWithoutTests = <<>>
    /\ misplacedTests = <<>>
    /\ placements = EmptyMap
    /\ previous = <<>>

SpecMain == InitMain /\ [][NextMain]_vars

\* the external coverage tool was invoked for the coverage map and failed
coverageToolFailed ==
    /\ mainInput # <<>>
    /\ mainInput[1].useCoverage
    /\ mainInput[1].coverageRun.failed

\* C15: when the external coverage tool fails, the finished run's untested
\* output is the one of direct-call inspection alone, as with a nil coverage
\* map: no declaration is suppressed by coverage.
C15_ToolFailureDisablesSuppression ==
    (pc = "done" /\ coverageToolFailed) =>
      /\ \A order \in Orders(DOMAIN index.fileFunctions) :
           functionsWithoutTests =
             findFunctionsWithoutTests(index.fileFunctions, buildTestedFuncsMap(index.fileTests),
                                       NilCoverage, order)
      /\ \A f \in indexedFuncs :
           ~isFunctionTested(f, keysCalledByTests) => f \in Elems(functionsWithoutTests)

\* the tool failed after reporting FuncA at 100.0%, the run is finished, and
\* FuncA, called by no test, is reported untested
C15_Witness ==
    /\ pc = "done"
    /\ coverageToolFailed
    /\ mainInput[1].coverageRun.pct = FuncA :> 1000
    /\ \E f \in Elems(functionsWithoutTests) : f.Name = FuncA

(***************************************************************************)
(* SpecParse: files the parser reports an error for.  a.go holds up to     *)
(* MaxDecls functions among FuncA and FuncB, b.go FuncB or nothing,        *)
(* a_test.go at most one routine; any of the three files may fail to       *)
(* parse.                                                                  *)
(***************************************************************************)
TreesParse ==
    {x[1] @@ x[2] : x \in
       TreesOf({aGo}, SeqsUpTo({kind(FuncA, <<>>, <<>>), kind(FuncB, <<>>, <<>>)}, MaxDecls),
               {aTestGo},
               {<<>>} \cup {<<kind(TestOther, <<>>, body)>> : body \in {<<>>, <<callIdent(FuncA)>>}})
         \X TreesOf({bGo}, {<<>>, <<kind(FuncB, <<>>, <<>>)>>}, {}, {})}

InitParse ==
    /\ tree \in TreesParse
    /\ excludePrivateFlag = FALSE
    /\ coverageInput = NilCoverage
    /\ parseErrors \in SUBSET DOMAIN tree
    /\ mainInput = <<>>
    /\ lowCoverageFuncs = <<>>
    /\ walk = walkOrder(DOMAIN tree)
    /\ index = EmptyIndex
    /\ pc = "parse"
    /\ functionsWithoutTests = <<>>
    /\ misplacedTests = <<>>
    /\ placements = EmptyMap
    /\ previous = <<>>

SpecParse == InitParse /\ [][Next]_vars

\* the index of a tree that holds the files paths only, visited in this order
RECURSIVE indexOfFiles(_, _)
indexOfFiles(paths, idx) ==
    IF paths = <<>> THEN idx
    ELSE indexOfFiles(Tail(paths),
                      processFileDeclarations(tree[Head(paths)], Head(paths),
                                              HasSuffix(Head(paths), TestSuffix),
                                              excludePrivateFlag, idx))

\* C16: a file that fails to parse is no key of either index, and once the
\* scan has returned, which it does without error, the index is the one of
\* the tree without that file.
C16_ParseFailureSkipsFile ==
    /\ \A f \in parseErrors :
         f \notin DOMAIN index.fileFunctions /\ f \notin DOMAIN index.fileTests
    /\ pc # "parse" =>
         index = indexOfFiles(walkOrder(DOMAIN tree \ parseErrors), EmptyIndex)

\* a.go, from which the parser recovered a declaration of FuncA, fails to
\* parse, b.go is indexed, and the run is finished
C16_Witness ==
    /\ pc = "done"
    /\ parseErrors = {aGo}
    /\ \E i \in 1..Len(tree[aGo]) : tree[aGo][i].Name = FuncA
    /\ DOMAIN index.fileFunctions = {bGo}
    /\ aTestGo \in DOMAIN index.fileTests

(***************************************************************************)
(* SpecLow: the low-coverage report of main.  The tree holds a.go and      *)
(* a_test.go, with or without b.go; -threshold is 0, 50 or 100 (in tenths  *)
(* of a percent); go tool cover -func fails or prints up to MaxLines       *)
(* lines.                                                                  *)
(***************************************************************************)
coverLine(filePath, line, name, percent) ==
    [kind |-> "func", filePath |-> filePath, line |-> line, name |-> name, percent |-> percent]

CoverLines ==
    { coverLine(<<"m","/">> \o aGo, <<"9">>, FuncA, <<"4","9",".","9">>),
      coverLine(<<"m","/">> \o aGo, <<"1","0">>, FuncB, <<"5","0",".","0">>),
      coverLine(<<"m","/">> \o bGo, <<"9">>, mainName, <<"0",".","0">>),
      coverLine(<<"m","/">> \o bGo, <<"1","0">>, initName, <<"4","9",".","9">>),
      coverLine(<<"m","/">> \o subBGo, <<"1","0">>, FuncB, <<"1","0","0",".","0">>),
      [kind |-> "total"],
      [kind |-> "other"] }

TreesLow ==
    LET base == TreesOf({aGo}, {<<kind(FuncA, <<>>, <<>>), kind(FuncB, <<>>, <<>>)>>},
                        {aTestGo}, {<<kind(TestOther, <<>>, <<callIdent(FuncA)>>)>>})
    IN  base \cup {x[1] @@ x[2] : x \in base \X TreesOf({bGo}, {<<kind(FuncB, <<>>, <<>>)>>}, {}, {})}

LowInputs ==
    [useCoverage : {FALSE},
     coverageRun : {[failed |-> TRUE, pct |-> EmptyMap]},
     threshold : {0, 500, 1000},
     lowRun : {FailedLowRun}
                \cup {[failed |-> FALSE, output |-> o] : o \in SeqsUpTo(CoverLines, MaxLines)}]

InitLow ==
    /\ tree \in TreesLow
    /\ excludePrivateFlag = FALSE
    /\ coverageInput = NilCoverage
    /\ parseErrors = {}
    /\ mainInput \in {<<m>> : m \in LowInputs}
    /\ lowCoverageFuncs = <<>>
    /\ walk = walkOrder(DOMAIN tree)
    /\ index = EmptyIndex
    /\ pc = "main"
    /\ functionsWithoutTests = <<>>
    /\ misplacedTests = <<>>
    /\ placements = EmptyMap
    /\ previous = <<>>

SpecLow == InitLow /\ [][NextMain]_vars

\* the percentages printed in the reports considered, in tenths of a percent
tenthsPrinted ==
    (<<"0",".","0">> :> 0) @@ (<<"4","9",".","9">> :> 499) @@ (<<"5","0",".","0">> :> 500)
      @@ (<<"1","0","0",".","0">> :> 1000)

\* the line numbers printed in the reports considered
linePrinted == (<<"9">> :> 9) @@ (<<"1","0">> :> 10)

\* the lines of the report that are entries to list under the threshold
entriesBelow(output, threshold) ==
    {i \in 1..Len(output) :
       /\ output[i].kind = "func"
       /\ tenthsPrinted[output[i].percent] < threshold
       /\ output[i].name \notin {mainName, initName}}

\* the record is the one of the report line
recordOfLine(r, line) ==
    /\ r.Name = line.name
    /\ r.Line = linePrinted[line.line]
    /\ r.Coverage = tenthsPrinted[line.percent]

\* C17: when main has finished, the low-coverage list holds exactly the report
\* entries strictly below the threshold whose name is neither main nor init,
\* sorted by file and line; with threshold 0 it is not computed.
C17_LowCoverageList ==
    (pc = "exit" /\ mainInput # <<>>) =>
      LET threshold == mainInput[1].threshold
          output == mainInput[1].lowRun.output
          listed == entriesBelow(output, threshold)
      IN  /\ threshold = 0 => lowCoverageFuncs = <<>>
          /\ (threshold > 0 /\ ~mainInput[1].lowRun.failed) =>
               /\ Len(lowCoverageFuncs) = Cardinality(listed)
               /\ \A i \in listed :
                    \E j \in 1..Len(lowCoverageFuncs) : recordOfLine(lowCoverageFuncs[j], output[i])
               /\ \A j \in 1..Len(lowCoverageFuncs) :
                    \E i \in listed : recordOfLine(lowCoverageFuncs[j], output[i])
               /\ \A i, j \in 1..Len(lowCoverageFuncs) :
                    i < j =>
                      \/ StrLess(lowCoverageFuncs[i].File, lowCoverageFuncs[j].File)
                      \/ /\ lowCoverageFuncs[i].File = lowCoverageFuncs[j].File
                         /\ lowCoverageFuncs[i].Line <= lowCoverageFuncs[j].Line

\* with threshold 50.0 the report prints FuncB of line 10 at 50.0% before FuncA
\* of line 9 at 49.9%, and only FuncA is listed
C17_Witness ==
    /\ pc = "exit"
    /\ mainInput # <<>>
    /\ mainInput[1].threshold = 500
    /\ ~mainInput[1].lowRun.failed
    /\ Len(mainInput[1].lowRun.output) = 2
    /\ mainInput[1].lowRun.output[1].kind = "func"
    /\ mainInput[1].lowRun.output[1].percent = <<"5","0",".","0">>
    /\ mainInput[1].lowRun.output[2].kind = "func"
    /\ mainInput[1].lowRun.output[2].name = FuncA
    /\ Len(lowCoverageFuncs) = 1
    /\ lowCoverageFuncs[1].Name = FuncA

(***************************************************************************)
(* SpecRoutines: which declarations become test routines.  The source      *)
(* file, a.go or test.go, holds up to MaxDecls functions among FuncA and   *)
(* TestFuncA; a_test.go holds up to MaxTests functions among Test,         *)
(* TestFuncA, testFuncA, Tes, BenchmarkA, ExampleA, FuzzA and helper.      *)
(***************************************************************************)
testGo == <<"t","e","s","t",".","g","o">>

RoutineNames ==
    { <<"T","e","s","t">>, TestFuncA, <<"t","e","s","t">> \o FuncA, <<"T","e","s">>,
      <<"B","e","n","c","h","m","a","r","k","A">>, <<"E","x","a","m","p","l","e","A">>,
      <<"F","u","z","z","A">>, helper }

TreesRoutines ==
    LET srcLists == SeqsUpTo({kind(FuncA, <<>>, <<>>), kind(TestFuncA, <<>>, <<>>)}, MaxDecls)
        testLists == SeqsUpTo({kind(name, <<>>, <<>>) : name \in RoutineNames}, MaxTests)
    IN  TreesOf({aGo}, srcLists, {aTestGo}, testLists)
          \cup TreesOf({testGo}, srcLists, {aTestGo}, testLists)

InitRoutines == InitWith(TreesRoutines, {FALSE}, {NilCoverage})

SpecRoutines == InitRoutines /\ [][Next]_vars

\* the declaration at id of the tree is a TestRoutine of the index
isTestRoutine(id) ==
    \E t \in Elems(Lookup(index.fileTests, id[1])) :
      t.Name = tree[id[1]][id[2]].Name /\ t.Line = tree[id[1]][id[2]].Line

\* the declaration at id of the tree is a Declaration of the index
isDeclaration(id) ==
    \E f \in Elems(Lookup(index.fileFunctions, id[1])) :
      f.Name = tree[id[1]][id[2]].Name /\ f.Line = tree[id[1]][id[2]].Line

\* the name starts with Test, Benchmark, Example or Fuzz, letter case regarded
hasRoutinePrefix(name) ==
    \E prefix \in { <<"T","e","s","t">>, <<"B","e","n","c","h","m","a","r","k">>,
                    <<"E","x","a","m","p","l","e">>, <<"F","u","z","z">> } :
      Len(name) >= Len(prefix) /\ \A i \in 1..Len(prefix) : name[i] = prefix[i]

\* the path ends in _test.go
endsInTestGo(path) ==
    /\ Len(path) >= 8
    /\ SubSeq(path, Len(path) - 7, Len(path)) = <<"_","t","e","s","t",".","g","o">>

\* C18: once the scan has returned, a function declaration is a TestRoutine
\* exactly when its file path ends in _test.go and its name starts with Test,
\* Benchmark, Example or Fuzz; any other function of a test file is neither a
\* TestRoutine nor a Declaration, and no function of a non-test file is a
\* TestRoutine.
C18_RoutineIffTestFileAndPrefix ==
    pc # "parse" =>
      \A id \in declIds :
        LET name == tree[id[1]][id[2]].Name
        IN  /\ isTestRoutine(id) <=> (endsInTestGo(id[1]) /\ hasRoutinePrefix(name))
            /\ (endsInTestGo(id[1]) /\ ~hasRoutinePrefix(name))
                 => (~isTestRoutine(id) /\ ~isDeclaration(id))
            /\ ~endsInTestGo(id[1]) => ~isTestRoutine(id)

\* test.go declares TestFuncA, a_test.go declares BenchmarkA and testFuncA:
\* the index holds one routine, BenchmarkA, and one declaration, TestFuncA
C18_Witness ==
    /\ pc = "done"
    /\ testGo \in DOMAIN tree
    /\ \E i \in 1..Len(tree[testGo]) : tree[testGo][i].Name = TestFuncA
    /\ Len(tree[aTestGo]) = 2
    /\ tree[aTestGo][1].Name = <<"B","e","n","c","h","m","a","r","k","A">>
    /\ tree[aTestGo][2].Name = <<"t","e","s","t">> \o FuncA
    /\ DOMAIN index.fileTests = {aTestGo}
    /\ Len(index.fileTests[aTestGo]) = 1
    /\ index.fileTests[aTestGo][1].Name = <<"B","e","n","c","h","m","a","r","k","A">>
    /\ \E f \in indexedFuncs : f.Name = TestFuncA /\ f.File = testGo

(***************************************************************************)
(* The routine under evaluation and the properly tested set                *)
(***************************************************************************)
\* the primary source files call counting yields for the routine at id when
\* the properly tested set is built from the routines other than it, one for
\* every order in which the range over the counts may run
primaryWithoutOwnCalls(id) ==
    LET others == buildProperlyTestedFuncsMap(withoutRoutine(index.fileTests, id),
                                              index.fileFunctions)
    IN  {findPrimarySourceFile(index.fileTests[id[1]][id[2]].CalledFuncs,
                               index.fileFunctions, others, order) :
           order \in Orders(DOMAIN index.fileFunctions)}

\* C20: when a routine R is evaluated by call counting, a called target is
\* skipped only if a routine other than R in the expected test file of the
\* target's file calls it; the calls of R itself skip nothing, so the primary
\* source file of R is the one counted with the properly tested set of the
\* other routines.
C20_OwnCallsNeverSkip ==
    pc = "done" =>
      \A id \in testIds(index.fileTests) :
        placements[id].counted => placements[id].primary \in primaryWithoutOwnCalls(id)

(***************************************************************************)
(* SpecCandidates: the naming convention for routine names of several      *)
(* segments.  a.go holds up to MaxDecls declarations among the method Load *)
(* of Svc and the functions Load and FuncA; b.go holds nothing, the        *)
(* function Load, the method Load of the type svc, or FuncB; the routine   *)
(* of a_test.go is named Test_Svc_Load, Test__Load or TestFuncA_FuncB and  *)
(* makes up to MaxCalls calls among svc.Load(), FuncA() and FuncB().       *)
(***************************************************************************)
Test_Svc_Load == TestPrefix \o Underscore \o Svc \o Underscore \o Load
Test__Load == TestPrefix \o Underscore \o Underscore \o Load
TestFuncA_FuncB == TestPrefix \o FuncA \o Underscore \o FuncB

CandidateKindsA == { kind(Load, Svc, <<>>), kind(Load, <<>>, <<>>), kind(FuncA, <<>>, <<>>) }

CandidateListsB ==
    { <<>>, <<kind(Load, <<>>, <<>>)>>, <<kind(Load, svcVar, <<>>)>>, <<kind(FuncB, <<>>, <<>>)>> }

CandidateRoutines ==
    { <<kind(name, <<>>, body)>> :
        name \in {Test_Svc_Load, Test__Load, TestFuncA_FuncB},
        body \in SeqsUpTo({callMethod(svcVar, Load), callIdent(FuncA), callIdent(FuncB)}, MaxCalls) }

TreesCandidates ==
    {x[1] @@ x[2] @@ x[3] : x \in
       TreesOf({aGo}, SeqsUpTo(CandidateKindsA, MaxDecls), {}, {})
         \X TreesOf({bGo}, CandidateListsB, {}, {})
         \X TreesOf({}, {}, {aTestGo}, CandidateRoutines)}

InitCandidates == InitWith(TreesCandidates, {FALSE}, {NilCoverage})

SpecCandidates == InitCandidates /\ [][Next]_vars

\* the non-empty segments of the routine names of SpecCandidates after Test
\* and one underscore, rightmost first
segmentsRightmostFirst(testName) ==
    IF testName = Test_Svc_Load THEN <<Load, Svc>>
    ELSE IF testName = Test__Load THEN <<Load>>
    ELSE IF testName = TestFuncA_FuncB THEN <<FuncB, FuncA>>
    ELSE <<>>

\* the files of the index with a declaration that the matched key resolves to
filesDeclaringKey(matchedName) ==
    {f \in DOMAIN index.fileFunctions :
       matchesOfFuncs(index.fileFunctions[f], f, matchedName) # <<>>}

\* C21: the candidates are the non-empty segments of the routine name after
\* the prefix and one underscore, rightmost first; the first candidate that
\* matches a called target decides: the naming convention yields a file
\* declaring the matched key, and when no file declares it the candidates to
\* its left are not consulted, so the naming convention yields nothing.
C21_FirstMatchingCandidateDecides ==
    pc = "done" =>
      \A id \in testIds(index.fileTests) :
        LET t == index.fileTests[id[1]][id[2]]
            candidates == segmentsRightmostFirst(t.Name)
            matching == {k \in 1..Len(candidates) :
                           firstMatched(t.CalledFuncs, ToLower(candidates[k])) # <<>>}
        IN  /\ extractFunctionNamesFromTest(t.Name) = candidates
            /\ Len(t.CalledFuncs) > 0 =>
                  IF matching = {} THEN filesByName(t) = {}
                  ELSE LET k == CHOOSE m \in matching : \A n \in matching : m <= n
                           matchedName == firstMatched(t.CalledFuncs, ToLower(candidates[k]))
                       IN  filesByName(t) \subseteq filesDeclaringKey(matchedName)

\* the first underscore-separated segment of the routine names of
\* SpecCandidates after Test and one underscore
firstSegment(testName) ==
    IF testName = Test_Svc_Load THEN Svc
    ELSE IF testName = TestFuncA_FuncB THEN FuncA
    ELSE <<>>

\* the matches whose declaration has a receiver, equal to the hint up to letter case
hintedMatches(matches, hint) ==
    {i \in 1..Len(matches) : matches[i].receiver # <<>> /\ EqualFold(matches[i].receiver, hint)}

\* C22: for a routine name of at least two segments, the file returned by
\* tryMatchFunctionName has a matching declaration whose receiver equals the
\* first segment up to letter case whenever such a declaration exists, for
\* every candidate and every iteration order over the files; when none
\* exists it is the first resolved file.
C22_ReceiverHint ==
    pc = "done" =>
      \A id \in testIds(index.fileTests) :
        LET t == index.fileTests[id[1]][id[2]]
        IN  \A k \in 1..Len(extractFunctionNamesFromTest(t.Name)) :
              \A order \in Orders(DOMAIN index.fileFunctions) :
                LET funcName == extractFunctionNamesFromTest(t.Name)[k]
                    matchedName == firstMatched(t.CalledFuncs, ToLower(funcName))
                    matches == matchesInOrder(order, index.fileFunctions, matchedName)
                    file == tryMatchFunctionName(funcName, extractReceiverTypeFromTest(t.Name),
                                                 t.CalledFuncs, index.fileFunctions, order)
                    hinted == hintedMatches(matches, firstSegment(t.Name))
                IN  (matchedName # <<>> /\ Len(matches) > 0) =>
                      IF hinted # {} THEN \E i \in hinted : matches[i].file = file
                      ELSE file = matches[1].file

\* Test_Svc_Load calls svc.Load(); a.go declares the function Load and b.go
\* the method Load of the type svc: both files resolve, b.go is the primary
\* file in every order
C22_Witness ==
    /\ pc = "done"
    /\ \E id \in testIds(index.fileTests) :
         LET t == index.fileTests[id[1]][id[2]]
         IN  /\ t.Name = Test_Svc_Load
             /\ t.CalledFuncs = <<svcVar \o Underscore \o Load>>
             /\ filesDeclaringKey(svcVar \o Underscore \o Load) = {aGo, bGo}
             /\ \A d \in Elems(index.fileFunctions[aGo]) : d.Receiver = <<>>
             /\ filesByName(t) = {bGo}
             /\ placements[id].primary = bGo

(***************************************************************************)
(* The choice of the primary file by call counting                         *)
(***************************************************************************)
\* the called targets of t that call counting does not skip and that resolve
\* to a declaration of sourceFile
countedIn(sourceFile, t) ==
    {called \in Elems(t.CalledFuncs) :
       /\ ~skippedAsProperlyTested(called,
             buildProperlyTestedFuncsMap(index.fileTests, index.fileFunctions))
       /\ \E d \in Elems(index.fileFunctions[sourceFile]) : matchesFunctionCall(d, called)}

\* C23: for a routine evaluated by call counting, a file whose count of
\* resolved, non-skipped called targets is strictly greater than the count of
\* every other file, and not zero, is the primary file, whatever the
\* iteration order; when every count is zero there is no primary file and the routine is not
\* reported.
C23_StrictMaximumIsPrimary ==
    pc = "done" =>
      \A id \in testIds(index.fileTests) :
        LET t == index.fileTests[id[1]][id[2]]
            files == DOMAIN index.fileFunctions
        IN  placements[id].counted =>
              /\ \A f \in files :
                   (/\ countedIn(f, t) # {}
                    /\ \A g \in files \ {f} :
                         Cardinality(countedIn(f, t)) > Cardinality(countedIn(g, t)))
                     => placements[id].primary = f
              /\ (\A f \in files : countedIn(f, t) = {}) =>
                   placements[id].primary = <<>> /\ recordsOfTest(id[1], t) = {}

\* TestOther of c_test.go calls FuncB, FuncA and FuncA2: two targets count for
\* a.go and one for b.go, a.go is primary and the routine is reported
C23_Witness ==
    /\ pc = "done"
    /\ \E id \in testIds(index.fileTests) :
         LET t == index.fileTests[id[1]][id[2]]
         IN  /\ id[1] = cTestGo
             /\ t.CalledFuncs = <<FuncB, FuncA, FuncA2>>
             /\ placements[id].counted
             /\ DOMAIN index.fileFunctions = {aGo, bGo}
             /\ countedIn(aGo, t) = {FuncA, FuncA2}
             /\ countedIn(bGo, t) = {FuncB}
             /\ placements[id].primary = aGo
             /\ reportedOnceFor(cTestGo, t, aGo)

(***************************************************************************)
(* SpecPrefixes: the naming convention for the four routine prefixes.      *)
(* a.go holds FuncA or nothing, b.go FuncB or nothing; the routine of      *)
(* a_test.go or b_test.go is named TestFuncA, BenchmarkFuncA, ExampleFuncA *)
(* or FuzzFuncA and makes up to MaxCalls calls among FuncA() and FuncB().  *)
(***************************************************************************)
RoutinePrefixes ==
    { TestPrefix, <<"B","e","n","c","h","m","a","r","k">>, <<"E","x","a","m","p","l","e">>,
      <<"F","u","z","z">> }

PrefixRoutines ==
    { <<kind(prefix \o FuncA, <<>>, body)>> :
        prefix \in RoutinePrefixes,
        body \in SeqsUpTo({callIdent(FuncA), callIdent(FuncB)}, MaxCalls) }

TreesPrefixes ==
    {x[1] @@ x[2] @@ x[3] : x \in
       TreesOf({aGo}, {<<>>, <<kind(FuncA, <<>>, <<>>)>>}, {}, {})
         \X TreesOf({bGo}, {<<>>, <<kind(FuncB, <<>>, <<>>)>>}, {}, {})
         \X (TreesOf({}, {}, {aTestGo}, PrefixRoutines)
               \cup TreesOf({}, {}, {bTestGo}, PrefixRoutines))}

InitPrefixes == InitWith(TreesPrefixes, {FALSE}, {NilCoverage})

SpecPrefixes == InitPrefixes /\ [][Next]_vars

\* C24: a routine named BenchmarkF, ExampleF or FuzzF that calls F is resolved
\* by the naming convention exactly as the routine named TestF with the same
\* calls is: to the file declaring F.
C24_EveryPrefixStripped ==
    pc = "done" =>
      \A id \in testIds(index.fileTests) :
        LET t == index.fileTests[id[1]][id[2]]
        IN  \A prefix \in RoutinePrefixes :
              (t.Name = prefix \o FuncA /\ FuncA \in Elems(t.CalledFuncs)) =>
                /\ filesByName(t) = filesByName([t EXCEPT !.Name = TestPrefix \o FuncA])
                /\ filesByName(t) # {} => placements[id].primary \in filesByName(t)

(***************************************************************************)
(* SpecInterleaved: the loop body of processFileDeclarations run for the   *)
(* declarations of several files in any interleaving.  walk holds the      *)
(* schedule, a sequence of items <<path, i>> for the i-th declaration of   *)
(* the file path, each file's declarations in source order.  a.go holds up *)
(* to MaxDecls functions among FuncA, helper and main, b.go FuncB or       *)
(* nothing, a_test.go TestFuncA calling FuncA, the function helper, or     *)
(* nothing.                                                                *)
(***************************************************************************)
\* one iteration of the loop writing under a key shared by the files of a directory
processDeclarationSharedKey(item, idx) ==
    processFileDeclarations(<<tree[item[1]][item[2]]>>, Dir(item[1]),
                            HasSuffix(item[1], TestSuffix), excludePrivateFlag, idx)

\* one iteration of the loop of processFileDeclarations, for the declaration
\* item[2] of the file item[1]
processDeclaration(item, idx) ==
    processFileDeclarations(<<tree[item[1]][item[2]]>>, item[1],
                            HasSuffix(item[1], TestSuffix), excludePrivateFlag, idx)

ProcessDeclaration ==
    /\ pc = "parse"
    /\ walk # <<>>
    /\ index' = processDeclaration(Head(walk), index)
    /\ walk' = Tail(walk)
    /\ UNCHANGED <<inputs, pc, functionsWithoutTests, misplacedTests, placements, previous,
                 lowCoverageFuncs>>

NextInterleaved == ProcessDeclaration \/ ParseDone \/ FindUntested \/ FindMisplaced

\* the declarations of the tree t as items
itemsOf(t) == UNION {{<<f, i>> : i \in 1..Len(t[f])} : f \in DOMAIN t}

\* every interleaving of the files' declarations that keeps each file's source order
Schedules(t) ==
    {sched \in [1..Cardinality(itemsOf(t)) -> itemsOf(t)] :
       /\ \A j, k \in DOMAIN sched : j # k => sched[j] # sched[k]
       /\ \A j, k \in DOMAIN sched :
            (j < k /\ sched[j][1] = sched[k][1]) => sched[j][2] < sched[k][2]}

TreesInterleaved ==
    {x[1] @@ x[2] @@ x[3] : x \in
       TreesOf({aGo}, SeqsUpTo({kind(name, <<>>, <<>>) : name \in {FuncA, helper, mainName}},
                               MaxDecls), {}, {})
         \X TreesOf({bGo}, {<<>>, <<kind(FuncB, <<>>, <<>>)>>}, {}, {})
         \X TreesOf({}, {}, {aTestGo},
                    {<<>>, <<kind(TestFuncA, <<>>, <<callIdent(FuncA)>>)>>,
                     <<kind(helper, <<>>, <<>>)>>})}

InitInterleaved ==
    /\ tree \in TreesInterleaved
    /\ excludePrivateFlag \in BOOLEAN
    /\ coverageInput = NilCoverage
    /\ parseErrors = {}
    /\ mainInput = <<>>
    /\ lowCoverageFuncs = <<>>
    /\ walk \in Schedules(tree)
    /\ index = EmptyIndex
    /\ pc = "parse"
    /\ functionsWithoutTests = <<>>
    /\ misplacedTests = <<>>
    /\ placements = EmptyMap
    /\ previous = <<>>

SpecInterleaved == InitInterleaved /\ [][NextInterleaved]_vars

\* how many declarations of the file f the schedule has run
doneOf(f) == Len(tree[f]) - Cardinality({k \in 1..Len(walk) : walk[k][1] = f})

\* the index of the first n declarations of the file f alone
indexOfFileAlone(f, n) ==
    processFileDeclarations(SubSeq(tree[f], 1, n), f, HasSuffix(f, TestSuffix),
                            excludePrivateFlag, EmptyIndex)

\* C25: processing a declaration writes only the entry keyed by its own
\* file's path, declarations for a source file and routines for a test file:
\* in any interleaving of the files, each file's entries are those of the
\* file processed alone, in source order, and once every file is processed
\* both indexes are those of the files processed one after the other.
C25_FilesIndexedIndependently ==
    /\ pc = "parse" =>
         /\ DOMAIN index.fileFunctions \cup DOMAIN index.fileTests \subseteq DOMAIN tree
         /\ \A f \in DOMAIN tree :
              /\ Lookup(index.fileFunctions, f) = Lookup(indexOfFileAlone(f, doneOf(f)).fileFunctions, f)
              /\ Lookup(index.fileTests, f) = Lookup(indexOfFileAlone(f, doneOf(f)).fileTests, f)
              /\ HasSuffix(f, TestSuffix) => f \notin DOMAIN index.fileFunctions
              /\ ~HasSuffix(f, TestSuffix) => f \notin DOMAIN index.fileTests
    /\ pc # "parse" => index = indexOfFiles(walkOrder(DOMAIN tree), EmptyIndex)
    /\ \A f \in DOMAIN index.fileFunctions :
         \A j, k \in 1..Len(index.fileFunctions[f]) :
           j < k => index.fileFunctions[f][j].Line < index.fileFunctions[f][k].Line

\* b.go's FuncB and the routine of a_test.go are indexed between the first
\* and the second declaration of a.go
C25_Witness ==
    /\ pc = "parse"
    /\ walk = <<<<aGo, 2>>>>
    /\ DOMAIN index.fileFunctions = {aGo, bGo}
    /\ DOMAIN index.fileTests = {aTestGo}
    /\ Len(index.fileFunctions[aGo]) = 1

(***************************************************************************)
(* The verdict of isFunctionTested and the receiver                        *)
(***************************************************************************)
\* keys a tested set may hold for the declarations of SpecCandidates
VerdictKeys ==
    { Load, load, Svc \o Underscore \o Load, svcVar \o Underscore \o Load, FuncA }

\* C26: for any tested set, two indexed declarations of the same name get the
\* same verdict from isFunctionTested whatever their receivers and files, and
\* with no coverage map both or neither are in the untested output.
C26_VerdictByNameOnly ==
    pc = "done" =>
      \A f, g \in indexedFuncs :
        f.Name = g.Name =>
          /\ \A testedFuncs \in SUBSET VerdictKeys :
               isFunctionTested(f, testedFuncs) <=> isFunctionTested(g, testedFuncs)
          /\ f \in Elems(functionsWithoutTests) <=> g \in Elems(functionsWithoutTests)

\* the routine calls svc.Load(); the function Load of a.go and the method Load
\* of the type svc of b.go are both tested, and the key svc_Load alone is the
\* receiver-qualified name of the second only
C26_Witness ==
    /\ pc = "done"
    /\ keysCalledByTests = {svcVar \o Underscore \o Load}
    /\ functionsWithoutTests = <<>>
    /\ \E f, g \in indexedFuncs :
         /\ f.Name = Load /\ f.Receiver = <<>> /\ f.File = aGo
         /\ g.Name = Load /\ g.Receiver = svcVar /\ g.File = bGo

(***************************************************************************)
(* The untested output when a routine is added                             *)
(***************************************************************************)
\* whether the list a is the list b with some elements left out
RECURSIVE isSubList(_, _)
isSubList(a, b) ==
    IF a = <<>> THEN TRUE
    ELSE IF b = <<>> THEN FALSE
    ELSE IF Head(a) = Head(b) THEN isSubList(Tail(a), Tail(b))
    ELSE isSubList(a, Tail(b))

\* the untested output for the declaration index of the run and the test
\* index fileTests, under the coverage map cov
untestedWith(fileTests, cov, order) ==
    findFunctionsWithoutTests(index.fileFunctions, buildTestedFuncsMap(fileTests), cov, order)

\* C27: for a fixed declaration index and coverage map, the untested output
\* with a routine added to the test index is a sub-list of the untested
\* output without it: a routine never adds a declaration to the output.
C27_RoutineNeverAddsUntested ==
    pc = "done" =>
      \A id \in testIds(index.fileTests) :
        \A before, after \in Orders(DOMAIN index.fileFunctions) :
          /\ isSubList(functionsWithoutTests,
                       untestedWith(withoutRoutine(index.fileTests, id), coverageInput, before))
          /\ \A cov \in CoverageMaps :
               isSubList(untestedWith(index.fileTests, cov, after),
                         untestedWith(withoutRoutine(index.fileTests, id), cov, before))

\* with the second routine of a_test.go, which calls FuncA, the output is
\* FuncB alone; without it the output is FuncA, FuncB
C27_Witness ==
    /\ pc = "done"
    /\ coverageInput.isNil
    /\ Len(functionsWithoutTests) = 1
    /\ functionsWithoutTests[1].Name = FuncB
    /\ aTestGo \in DOMAIN index.fileTests
    /\ Len(index.fileTests[aTestGo]) = 2
    /\ index.fileTests[aTestGo][2].CalledFuncs = <<FuncA>>
    /\ \A order \in Orders(DOMAIN index.fileFunctions) :
         LET without == untestedWith(withoutRoutine(index.fileTests, <<aTestGo, 2>>),
                                     coverageInput, order)
         IN  Len(without) = 2 /\ without[1].Name = FuncA /\ without[2].Name = FuncB

(***************************************************************************)
(* SpecFrame: the run of main with and without coverage data and           *)
(* threshold.  a.go holds FuncA or nothing, b.go FuncB or nothing; the     *)
(* routine of a_test.go, TestFuncB or TestOther, makes up to MaxCalls      *)
(* calls among FuncA() and FuncB(); the coverage tool fails or reports     *)
(* nothing, 100% for both functions, or 0% for FuncB; the threshold is 0   *)
(* or 50, and the low-coverage run fails or prints one line.               *)
(***************************************************************************)
TreesFrame ==
    {x[1] @@ x[2] @@ x[3] : x \in
       TreesOf({aGo}, {<<>>, <<kind(FuncA, <<>>, <<>>)>>}, {}, {})
         \X TreesOf({bGo}, {<<>>, <<kind(FuncB, <<>>, <<>>)>>}, {}, {})
         \X TreesOf({}, {}, {aTestGo},
                    { <<kind(name, <<>>, body)>> :
                        name \in {TestFuncB, TestOther},
                        body \in SeqsUpTo({callIdent(FuncA), callIdent(FuncB)}, MaxCalls) })}

FrameInputs ==
    [useCoverage : BOOLEAN,
     coverageRun : { [failed |-> TRUE, pct |-> EmptyMap],
                     [failed |-> FALSE, pct |-> EmptyMap],
                     [failed |-> FALSE, pct |-> FuncA :> 1000 @@ FuncB :> 1000],
                     [failed |-> FALSE, pct |-> FuncB :> 0] },
     threshold : {0, 500},
     lowRun : { FailedLowRun,
                [failed |-> FALSE,
                 output |-> <<coverLine(<<"m","/">> \o aGo, <<"9">>, FuncA, <<"4","9",".","9">>)>>] }]

InitFrame ==
    /\ tree \in TreesFrame
    /\ excludePrivateFlag = FALSE
    /\ coverageInput = NilCoverage
    /\ parseErrors = {}
    /\ mainInput \in {<<m>> : m \in FrameInputs}
    /\ lowCoverageFuncs = <<>>
    /\ walk = walkOrder(DOMAIN tree)
    /\ index = EmptyIndex
    /\ pc = "main"
    /\ functionsWithoutTests = <<>>
    /\ misplacedTests = <<>>
    /\ placements = EmptyMap
    /\ previous = <<>>

SpecFrame == InitFrame /\ [][NextMain]_vars

\* the misplaced lists that the declaration index and the test index of the
\* tree give, over the iteration orders; coverage and threshold are not read
misplacedOfIndexes ==
    LET parsed == indexOfFiles(walkOrder(DOMAIN tree), EmptyIndex)
    IN  {findMisplacedTests(parsed.fileTests, parsed.fileFunctions, testOrder, srcOrders) :
           testOrder \in Orders(DOMAIN parsed.fileTests),
           srcOrders \in [testIds(parsed.fileTests) -> Orders(DOMAIN parsed.fileFunctions)]}

\* C28: the misplaced list of a run is one the declaration index and the test
\* index alone give: whatever the coverage map (none, empty, any percentages)
\* and the low-coverage threshold, the reported routines and their expected
\* files are the same.
C28_MisplacedIgnoresCoverage ==
    pc \in {"done", "exit"} => misplacedTests \in misplacedOfIndexes

\* under -use-coverage with FuncB reported at 100% and a threshold of 50,
\* TestFuncB of a_test.go calling FuncB of b.go is reported all the same
C28_Witness ==
    /\ pc = "exit"
    /\ ~coverageInput.isNil
    /\ FuncB \in DOMAIN coverageInput.pct
    /\ coverageInput.pct[FuncB] = 1000
    /\ mainInput[1].threshold = 500
    /\ Len(lowCoverageFuncs) = 1
    /\ functionsWithoutTests = <<>>
    /\ Len(misplacedTests) = 1
    /\ misplacedTests[1].Test.Name = TestFuncB
    /\ misplacedTests[1].ExpectedFile = bTestGo

(***************************************************************************)
(* Coverage suppression and the declarations of one name                   *)
(***************************************************************************)
\* the untested output of the run's indexes with no coverage map
untestedByCallsAlone(order) ==
    findFunctionsWithoutTests(index.fileFunctions, buildTestedFuncsMap(index.fileTests),
                              NilCoverage, order)

\* C29: when the coverage map reports the name N at 50.0% or more, no
\* declaration named N is in the untested output, whatever its file and
\* receiver; and the output under a coverage map is the output of direct-call
\* inspection alone with elements left out, all of them reported at 50.0% or
\* more: coverage data adds nothing.
C29_SuppressionByPlainName ==
    pc = "done" =>
      /\ \A f \in indexedFuncs :
           (/\ ~coverageInput.isNil
            /\ f.Name \in DOMAIN coverageInput.pct
            /\ coverageInput.pct[f.Name] >= 500)
             => f \notin Elems(functionsWithoutTests)
      /\ \A order \in Orders(DOMAIN index.fileFunctions) :
           /\ isSubList(functionsWithoutTests, untestedByCallsAlone(order))
           /\ \A f \in Elems(untestedByCallsAlone(order)) \ Elems(functionsWithoutTests) :
                /\ ~coverageInput.isNil
                /\ f.Name \in DOMAIN coverageInput.pct
                /\ coverageInput.pct[f.Name] >= 500

\* the map reports Load at 50.0%: the method Load of Svc in a.go and the
\* function Load in b.go, which no test calls, are both absent
C29_Witness ==
    /\ pc = "done"
    /\ ~coverageInput.isNil
    /\ Load \in DOMAIN coverageInput.pct
    /\ coverageInput.pct[Load] = 500
    /\ \E f, g \in indexedFuncs :
         /\ f.Name = Load /\ f.Receiver = Svc /\ f.File = aGo
         /\ g.Name = Load /\ g.Receiver = <<>> /\ g.File = bGo
         /\ \A order \in Orders(DOMAIN index.fileFunctions) :
              {f, g} \subseteq Elems(untestedByCallsAlone(order))
    /\ \A d \in Elems(functionsWithoutTests) : d.Name # Load

(***************************************************************************)
(* The matched key of one candidate                                        *)
(***************************************************************************)
\* whether the called target satisfies one of the four patterns for the
\* candidate, letter case ignored: equal, ending in _candidate, starting with
\* the candidate, or its part after the last underscore starting with it
satisfiesPattern(called, candidate) ==
    LET c == ToLower(called)
        n == ToLower(candidate)
    IN  \/ c = n
        \/ Len(c) > Len(n) /\ SubSeq(c, Len(c) - Len(n), Len(c)) = Underscore \o n
        \/ Len(c) >= Len(n) /\ SubSeq(c, 1, Len(n)) = n
        \/ \E k \in 2..Len(c) :
             /\ c[k] = "_"
             /\ \A m \in (k+1)..Len(c) : c[m] # "_"
             /\ Len(c) - k >= Len(n)
             /\ SubSeq(c, k + 1, k + Len(n)) = n

\* the places, in call order, of the called targets of t that satisfy a pattern
matchingCalls(t, candidate) ==
    {i \in 1..Len(t.CalledFuncs) : satisfiesPattern(t.CalledFuncs[i], candidate)}

\* C30: for one candidate, the matched key is the first called target in call
\* order that satisfies one of the four patterns, also when a later target
\* matches exactly; tryMatchFunctionName yields a file declaring that key,
\* and nothing when no file declares it or no target matches: no other
\* called target is tried for the candidate.
C30_FirstMatchingCallDecides ==
    pc = "done" =>
      \A id \in testIds(index.fileTests) :
        LET t == index.fileTests[id[1]][id[2]]
            candidates == extractFunctionNamesFromTest(t.Name)
        IN  \A k \in 1..Len(candidates) :
              \A order \in Orders(DOMAIN index.fileFunctions) :
                LET file == tryMatchFunctionName(candidates[k],
                                                 extractReceiverTypeFromTest(t.Name),
                                                 t.CalledFuncs, index.fileFunctions, order)
                    matching == matchingCalls(t, candidates[k])
                IN  IF matching = {} THEN file = <<>>
                    ELSE LET first == CHOOSE i \in matching : \A j \in matching : i <= j
                             declaring == filesDeclaringKey(t.CalledFuncs[first])
                         IN  IF declaring = {} THEN file = <<>> ELSE file \in declaring

\* TestFuncA of b_test.go calls FuncA2 and then FuncA; only FuncA is
\* declared, in a.go: the matched key is FuncA2, the naming convention
\* yields nothing and call counting decides
C30_Witness ==
    /\ pc = "done"
    /\ \E id \in testIds(index.fileTests) :
         LET t == index.fileTests[id[1]][id[2]]
         IN  /\ id[1] = bTestGo
             /\ t.Name = TestFuncA
             /\ t.CalledFuncs = <<FuncA2, FuncA>>
             /\ matchingCalls(t, FuncA) = {1, 2}
             /\ filesDeclaringKey(FuncA2) = {}
             /\ filesDeclaringKey(FuncA) = {aGo}
             /\ filesByName(t) = {}
             /\ placements[id].counted
             /\ placements[id].primary = aGo

====
